---- MODULE Spec2Model ----
(***************************************************************************)
(* A model of the pytest-selenium-framework glue code.                     *)
(*                                                                         *)
(* The components are modelled each as its own state machine; Init draws   *)
(* the component that a behaviour exercises (variable unit):               *)
(*                                                                         *)
(*   "fixture"            tests/conftest.py: the per-test driver fixture   *)
(*                        and the pytest_runtest_makereport hook, driven   *)
(*                        through pytest's setup / call / teardown phases  *)
(*                        for a sequence of tests of one worker process;   *)
(*   "factory"            utilities/driver_factory.py: one call of         *)
(*                        DriverFactory.create_driver;                     *)
(*   "config_manager"     utilities/config_manager.py: ConfigManager();    *)
(*   "config_fixture"     tests/conftest.py: the session-scoped config;    *)
(*   "test_data_fixture"  tests/conftest.py: the session-scoped test_data; *)
(*   "base_page"          pages/base_page.py and                           *)
(*                        utilities/screenshot_helper.py: the calls test   *)
(*                        code makes on a page object or on the helper;    *)
(*   "options"            tests/conftest.py: the run-level options the     *)
(*                        driver fixture resolves at setup;                *)
(*   "directories"        run_tests.py: calls of setup_directories;        *)
(*   "cli"                run_tests.py: main(), with                       *)
(*                        utilities/system_check.py: SystemCheck.run;      *)
(*   "selenium_page"      pages/selenium_page.py: the navigations.         *)
(*                                                                         *)
(* Everything outside the repository (the filesystem, subprocesses, the    *)
(* WebDriver library, the driver download) is an input: each call into it  *)
(* draws its outcome from the set of outcomes that call can have.          *)
(***************************************************************************)
EXTENDS Integers, Sequences, FiniteSets, TLC

VARIABLES
    unit,        \* the component exercised
    \* ---- tests/conftest.py: driver fixture and makereport hook ----
    pc,          \* position in the current test's setup/call/teardown
    testNo,      \* number of tests started by this worker
    browser,     \* the run's --browser option
    marked,      \* the current test carries @pytest.mark.screenshot_on_pass
    itemHasMarkers, \* hasattr(item, "markers") in this pytest installation
    sess,        \* sess[i]: state of the session started by test i
    driverVar,   \* the fixture's local `driver`: 0, or the session it holds
    funcargs,    \* item.funcargs.get("driver"): 0, or the session yielded
    yielded,     \* the fixture generator reached its yield
    outcome,     \* the report outcome of each phase of the current test
    events,      \* what the current test did, in order
    logged,      \* error-level log messages of the current test
    raised,      \* the exception that escaped the fixture's setup, or "none"
    quitResult,  \* what driver.quit() did in the current test, or "none"
    testName,    \* item.name of the current test
    captures,    \* the captures the hook attempted for the current test
    hookRaised,  \* the exception that escaped the hook in the current test
    \* ---- the clock and the screenshots directory ----
    clock,       \* the wall clock, in seconds
    shotFiles,   \* the PNG files in reports/screenshots
    shotCount,   \* the captures that saved a PNG so far
    \* ---- pages/base_page.py and utilities/screenshot_helper.py ----
    pgCalls,     \* BasePage / ScreenshotHelper calls made by test code so far
    pgResult,    \* the latest call: what it did and how it ended
    \* ---- utilities/driver_factory.py: DriverFactory.create_driver ----
    facPc,       \* position inside one create_driver call
    facArgs,     \* the call's arguments: browser, headless, browser_config
    facPlatform, \* the machine the call runs on
    facOptions,  \* the browser options built for the call
    facProbe,    \* what the PATH probe of the call did, or "none"
    facDriverPath, \* what <Manager>().install() returned, or << >>
    facBin,      \* the file at the resolved path: does it exist, is it X_OK
    facPath,     \* the path handed to the service: << >>, PATH, or resolved
    facSession,  \* the browser session of the call: "none", "LIVE", "CLOSED"
    facApplied,  \* window size and implicit wait applied to the session
    facConfigured, \* what the two driver calls of _configure_driver did
    facResult,   \* how the call ended: returned, or raised what, chained to what
    facEffects,  \* process-level side effects of the call, in order
    facLog,      \* log records of the call
    \* ---- utilities/config_manager.py, and conftest's config / test_data ----
    fs,          \* the configuration files on disk: absent, unreadable, or text
    tdDir,       \* the test_data directory: "present", "absent", "uncreatable"
    cmInstance,  \* ConfigManager._instance is set
    cmInitialized, \* ConfigManager._initialized
    cmState,     \* the instance's _config, _browser_config, _env_config, _test_data
    cmConstructs, \* ConfigManager() calls made so far
    cmLoads,     \* the outcome of _load_config_file for each file, last construction
    cmReads,     \* the files opened on disk by every construction so far
    cmResult,    \* how the last ConfigManager() call ended
    cmLog,       \* log records of the ConfigManager
    cmCalls,     \* accessor calls made on the instance so far
    cmFirst,     \* the first accessor call of the run and what it returned
    cmLast,      \* the latest repetition of that call and what it returned
    cmMutations, \* changes callers made to objects that call handed out
    fxResult,    \* how the session fixture (config or test_data) ended
    fxLog,       \* log records of the session fixture
    \* ---- tests/conftest.py: the run-level options of the driver fixture ----
    optRun,      \* a run's command line and files, and what setup resolved
    \* ---- run_tests.py and utilities/system_check.py ----
    dirs,        \* the directories that exist under the working directory
    dirFiles,    \* the files that exist in them
    sdCleans,    \* the clean option of each setup_directories call so far
    sdBefore,    \* the directories and files before the latest of those calls
    cliPc,       \* position inside main()
    cliArgs,     \* the parsed command line of run_tests.py
    sysCheck,    \* the SystemCheck of the run: its flags and what run() returned
    testsRun,    \* what pytest.main did: "not started", or its outcome
    exitCode,    \* the exit status of the process, or -1 while it runs
    \* ---- pages/selenium_page.py ----
    navResult    \* the latest SeleniumPage navigation: what happened, how it ended

fixVars == <<pc, testNo, browser, marked, itemHasMarkers, sess, driverVar,
             funcargs, yielded, outcome, events, logged, raised, quitResult,
             testName, captures, hookRaised>>

shotVars == <<clock, shotFiles, shotCount>>

facVars == <<facPc, facArgs, facPlatform, facOptions, facProbe, facDriverPath, facBin,
             facPath, facSession, facApplied, facConfigured, facResult,
             facEffects, facLog>>

getVars == <<cmCalls, cmFirst, cmLast, cmMutations>>

cfgVars == <<fs, tdDir, cmInstance, cmInitialized, cmState, cmConstructs,
             cmLoads, cmReads, cmResult, cmLog, getVars, fxResult, fxLog>>

pgVars == <<pgCalls, pgResult>>

optVars == <<optRun>>

dirVars == <<dirs, dirFiles, sdCleans, sdBefore>>

cliVars == <<cliPc, cliArgs, sysCheck, testsRun, exitCode>>

navVars == <<navResult>>

vars == <<unit, fixVars, facVars, cfgVars, shotVars, pgVars, optVars, dirVars,
          cliVars, navVars>>

(***************************************************************************)
(* Bounds                                                                  *)
(***************************************************************************)
\* Tests one worker runs in a behaviour.
MaxTests == 3

\* ConfigManager() calls in a behaviour.
MaxConstructs == 2

\* Accessor calls on the ConfigManager in a behaviour.
MaxCalls == 2

\* Changes callers make to returned objects in a behaviour.
MaxMutations == 1

\* BasePage / ScreenshotHelper calls in a behaviour.
MaxPageCalls == 2

\* The last second of the wall clock in a behaviour (it starts at 0).
MaxClock == 1

\* setup_directories calls in a behaviour.
MaxSetupCalls == 2

Tests == 1 .. MaxTests

(***************************************************************************)
(* tests/conftest.py: the driver fixture                                   *)
(***************************************************************************)
\* Browser names the --browser option may carry.
BrowserNames == {"chrome", "firefox", "edge", "safari"}

\* The branches of the fixture's if/elif chain (conftest.py 57, 111, 138).
FixtureBrowsers == {"chrome", "firefox", "edge"}

\* Outcomes of subprocess.run([<driver>, "--version"], check=True).
ProbeOutcomes == {"ok", "CalledProcessError", "FileNotFoundError", "PermissionError"}

\* except (subprocess.SubprocessError, FileNotFoundError)
FixtureProbeCaught == {"CalledProcessError", "FileNotFoundError"}

\* Operations issued on a started session.
DriverOps == {"set_window_size", "implicitly_wait", "tag", "body",
              "save_screenshot", "quit"}

\* item.name of the worker's tests, in the order they run.  A name is unique
\* within a module or class only: test_features.py and
\* TestScreenshotCapabilities both define test_screenshot_on_failure;
\* test_navigation_items is test_selenium.py's.
ItemName(i) ==
    IF i % 3 = 0 THEN "test_navigation_items" ELSE "test_screenshot_on_failure"

NoOutcome == [setup |-> "none", call |-> "none", teardown |-> "none"]

FixtureIdle ==
    /\ pc = "idle"
    /\ testNo = 0
    /\ marked = FALSE
    /\ sess = [i \in Tests |-> "UNCREATED"]
    /\ driverVar = 0
    /\ funcargs = 0
    /\ yielded = FALSE
    /\ outcome = NoOutcome
    /\ events = << >>
    /\ logged = {}
    /\ raised = "none"
    /\ quitResult = "none"
    /\ testName = "none"
    /\ captures = << >>
    /\ hookRaised = "none"

\* An exception leaves the fixture before its yield: pytest reports the setup
\* phase as failed, skips the call phase, and has no finalizer to run for
\* this fixture.
SetupRaises(exc) ==
    /\ raised' = exc
    /\ outcome' = [outcome EXCEPT !.setup = "failed"]
    /\ pc' = "report_setup"

\* pytest starts the next test of the worker.
StartTest ==
    /\ unit = "fixture"
    /\ pc = "idle"
    /\ testNo < MaxTests
    /\ testNo' = testNo + 1
    /\ \E m \in BOOLEAN : marked' = m
    /\ driverVar' = 0
    /\ funcargs' = 0
    /\ yielded' = FALSE
    /\ outcome' = NoOutcome
    /\ events' = << >>
    /\ logged' = {}
    /\ raised' = "none"
    /\ quitResult' = "none"
    /\ testName' = ItemName(testNo + 1)
    /\ captures' = << >>
    /\ hookRaised' = "none"
    /\ pc' = "dispatch"
    /\ UNCHANGED <<unit, optVars, dirVars, cliVars, navVars, facVars, cfgVars, shotVars, pgVars, browser, itemHasMarkers,
                   sess>>

\* The fixture's if / elif / else on the browser name.
FixtureDispatch(b) ==
    IF b \in FixtureBrowsers THEN [next |-> "probe", exc |-> "none"]
    ELSE [next |-> "raise", exc |-> "ValueError"]

DriverFixtureDispatch ==
    /\ unit = "fixture"
    /\ pc = "dispatch"
    /\ LET d == FixtureDispatch(browser) IN
       IF d.next = "raise"
       THEN /\ SetupRaises(d.exc)
            /\ UNCHANGED <<events>>
       ELSE /\ pc' = d.next
            /\ UNCHANGED <<events, raised, outcome>>
    /\ UNCHANGED <<unit, optVars, dirVars, cliVars, navVars, facVars, cfgVars, pgVars, shotVars, testName, captures, hookRaised, testNo, browser, marked, itemHasMarkers, sess,
                   driverVar, funcargs, yielded, logged, quitResult>>

\* subprocess.run([driver, "--version"], capture_output=True, check=True)
DriverFixtureProbe ==
    /\ unit = "fixture"
    /\ pc = "probe"
    /\ events' = Append(events, "probe")
    /\ \E r \in ProbeOutcomes :
         IF r = "ok"
         THEN pc' = "start_local" /\ UNCHANGED <<raised, outcome>>
         ELSE IF r \in FixtureProbeCaught
         THEN pc' = "install" /\ UNCHANGED <<raised, outcome>>
         ELSE SetupRaises(r)
    /\ UNCHANGED <<unit, optVars, dirVars, cliVars, navVars, facVars, cfgVars, pgVars, shotVars, testName, captures, hookRaised, testNo, browser, marked, itemHasMarkers, sess,
                   driverVar, funcargs, yielded, logged, quitResult>>

\* webdriver.Chrome / Firefox / Edge(service=Service(), options=options) inside
\* the outer try: a WebDriverException is not among the caught types.
DriverFixtureStartLocal ==
    /\ unit = "fixture"
    /\ pc = "start_local"
    /\ events' = Append(events, "start")
    /\ \E r \in {"ok", "WebDriverException"} :
         IF r = "ok"
         THEN /\ sess' = [sess EXCEPT ![testNo] = "LIVE"]
              /\ driverVar' = testNo
              /\ pc' = "set_window_size"
              /\ UNCHANGED <<raised, outcome>>
         ELSE /\ SetupRaises(r)
              /\ UNCHANGED <<sess, driverVar>>
    /\ UNCHANGED <<unit, optVars, dirVars, cliVars, navVars, facVars, cfgVars, pgVars, shotVars, testName, captures, hookRaised, testNo, browser, marked, itemHasMarkers,
                   funcargs, yielded, logged, quitResult>>

\* The fallback: <Manager>().install(), the executable's path, os.chmod.
\* Chrome and Edge resolve the path and fix its mode; Firefox hands the
\* install result to the service as it is.  Any exception is logged and
\* re-raised (except Exception as e: logger.error(...); raise).
InstallOutcomes == {"dir", "binary", "sibling", "raises"}

FixtureInstall(b, inst, exists, xok, chm) ==
    IF inst = "raises" THEN [ok |-> FALSE, exc |-> "Exception", chmod |-> FALSE]
    ELSE IF b = "firefox" THEN [ok |-> TRUE, exc |-> "none", chmod |-> FALSE]
    ELSE IF exists /\ ~xok
         THEN IF chm = "ok" THEN [ok |-> TRUE, exc |-> "none", chmod |-> TRUE]
              ELSE [ok |-> FALSE, exc |-> "OSError", chmod |-> TRUE]
    ELSE [ok |-> TRUE, exc |-> "none", chmod |-> FALSE]

DriverFixtureInstall ==
    /\ unit = "fixture"
    /\ pc = "install"
    /\ \E inst \in InstallOutcomes, exists \in BOOLEAN, xok \in BOOLEAN,
          chm \in {"ok", "OSError"} :
         LET r == FixtureInstall(browser, inst, exists, xok, chm) IN
         /\ events' = IF r.chmod THEN events \o <<"download", "chmod">>
                      ELSE Append(events, "download")
         /\ IF r.ok
            THEN /\ pc' = "start_downloaded"
                 /\ UNCHANGED <<raised, outcome, logged>>
            ELSE /\ SetupRaises(r.exc)
                 /\ logged' = logged \cup {"Failed to initialize driver"}
    /\ UNCHANGED <<unit, optVars, dirVars, cliVars, navVars, facVars, cfgVars, pgVars, shotVars, testName, captures, hookRaised, testNo, browser, marked, itemHasMarkers, sess,
                   driverVar, funcargs, yielded, quitResult>>

\* webdriver.Chrome / Firefox / Edge(service=Service(path), options=options)
\* inside the inner try.
DriverFixtureStartDownloaded ==
    /\ unit = "fixture"
    /\ pc = "start_downloaded"
    /\ events' = Append(events, "start")
    /\ \E r \in {"ok", "WebDriverException"} :
         IF r = "ok"
         THEN /\ sess' = [sess EXCEPT ![testNo] = "LIVE"]
              /\ driverVar' = testNo
              /\ pc' = "set_window_size"
              /\ UNCHANGED <<raised, outcome, logged>>
         ELSE /\ SetupRaises(r)
              /\ logged' = logged \cup {"Failed to initialize driver"}
              /\ UNCHANGED <<sess, driverVar>>
    /\ UNCHANGED <<unit, optVars, dirVars, cliVars, navVars, facVars, cfgVars, pgVars, shotVars, testName, captures, hookRaised, testNo, browser, marked, itemHasMarkers,
                   funcargs, yielded, quitResult>>

\* What the fixture does when a step after the constructor raises: nothing
\* encloses lines 190-206, so the exception leaves the generator.
FixtureAfterStartRaise(exc) == [propagate |-> TRUE, quit |-> FALSE]

\* driver.set_window_size(...), then driver.implicitly_wait(...)
FixtureConfigureStep(step, nextPc) ==
    /\ unit = "fixture"
    /\ pc = step
    /\ events' = Append(events, step)
    /\ \E r \in {"ok", "WebDriverException"} :
         IF r = "ok"
         THEN /\ pc' = nextPc
              /\ UNCHANGED <<raised, outcome, sess>>
         ELSE LET h == FixtureAfterStartRaise(r) IN
              /\ sess' = IF h.quit THEN [sess EXCEPT ![driverVar] = "CLOSED"]
                         ELSE sess
              /\ IF h.propagate THEN SetupRaises(r)
                 ELSE pc' = nextPc /\ UNCHANGED <<raised, outcome>>
    /\ UNCHANGED <<unit, optVars, dirVars, cliVars, navVars, facVars, cfgVars, pgVars, shotVars, testName, captures, hookRaised, testNo, browser, marked, itemHasMarkers,
                   driverVar, funcargs, yielded, logged, quitResult>>

DriverFixtureSetWindowSize == FixtureConfigureStep("set_window_size", "implicitly_wait")

DriverFixtureImplicitlyWait == FixtureConfigureStep("implicitly_wait", "tag")

\* driver.capabilities['sessionId'] = str(uuid.uuid4()), the worker id, and
\* the yield: the setup phase has passed and the test receives the driver.
DriverFixtureYield ==
    /\ unit = "fixture"
    /\ pc = "tag"
    /\ events' = Append(events, "tag")
    /\ yielded' = TRUE
    /\ funcargs' = driverVar
    /\ outcome' = [outcome EXCEPT !.setup = "passed"]
    /\ pc' = "report_setup"
    /\ UNCHANGED <<unit, optVars, dirVars, cliVars, navVars, facVars, cfgVars, pgVars, shotVars, testName, captures, hookRaised, testNo, browser, marked, itemHasMarkers, sess,
                   driverVar, logged, raised, quitResult>>

(***************************************************************************)
(* tests/conftest.py: pytest_runtest_makereport                            *)
(***************************************************************************)
\* The hook without its `report.when == "call"` test.
HookCaptureAnyPhase(when, rep, drv, mk, hasMk) ==
    IF drv = 0 THEN "none"
    ELSE IF rep = "failed" THEN "failure"
    ELSE IF rep = "passed" /\ hasMk /\ mk THEN "pass"
    ELSE "none"

\* What the hook captures for a report: "failure", "pass" or "none".
HookCapture(when, rep, drv, mk, hasMk) ==
    IF when # "call" THEN "none"
    ELSE IF drv = 0 THEN "none"
    ELSE IF rep = "failed" THEN "failure"
    ELSE IF rep = "passed" /\ hasMk /\ mk THEN "pass"
    ELSE "none"

\* datetime.now().strftime("%Y%m%d_%H%M%S") at second t of the run.
Digits == <<"0", "1", "2", "3", "4", "5", "6", "7", "8", "9">>

Stamp(t) == "20240101_0000" \o Digits[((t \div 10) % 10) + 1] \o Digits[(t % 10) + 1]

\* os.path.join("reports", "screenshots", filename)
ScreenshotPath(filename) == "reports/screenshots/" \o filename

\* The hook's file names: f"failure_{test_name}_{timestamp}.png",
\* f"pass_{test_name}_{timestamp}.png", f"failure_{test_name}_{timestamp}_error.txt".
HookPngName(kind, name, stamp) == kind \o "_" \o name \o "_" \o stamp \o ".png"

HookErrorName(name, stamp) == "failure_" \o name \o "_" \o stamp \o "_error.txt"

\* What the capture steps of the hook do: driver.save_screenshot raises
\* ("WebDriverException"); it returns False without writing the file and
\* open(screenshot_path, "rb") raises ("FileNotFoundError"); the PNG is saved
\* and a later step (the report attachments, writing the error text) raises
\* ("OSError"); or all succeed.
HookCaptureOutcomes == {"ok", "WebDriverException", "FileNotFoundError", "OSError"}

\* One capture of the hook, inside try / except Exception as e:
\* logger.error(f"Failed to take screenshot: ...").
HookCaptureBody(kind, name, stamp, r) ==
    [png |-> ScreenshotPath(HookPngName(kind, name, stamp)),
     saved |-> r \in {"ok", "OSError"},
     txt |-> IF kind = "failure" /\ r = "ok"
             THEN ScreenshotPath(HookErrorName(name, stamp)) ELSE "",
     log |-> IF r = "ok" THEN {} ELSE {"Failed to take screenshot"},
     raised |-> "none"]

\* The hook body for one phase's report.  The clock is read when the report
\* is the call phase's (timestamp = datetime.now()...).
MakeReport(when, nextPc) ==
    /\ unit = "fixture"
    /\ pc = "report_" \o when
    /\ LET cap == HookCapture(when, outcome[when], funcargs, marked, itemHasMarkers) IN
       IF cap = "none"
       THEN /\ events' = Append(events, "report_" \o when)
            /\ UNCHANGED <<logged, captures, hookRaised, shotVars>>
       ELSE \E t \in clock .. MaxClock, r \in HookCaptureOutcomes :
              LET c == HookCaptureBody(cap, testName, Stamp(t), r) IN
              /\ clock' = t
              /\ events' = events \o <<"save_screenshot", "report_" \o when>>
              /\ captures' = Append(captures,
                                    [when |-> when, kind |-> cap, name |-> testName,
                                     stamp |-> Stamp(t), png |-> c.png, txt |-> c.txt])
              /\ shotFiles' = IF c.saved THEN shotFiles \cup {c.png} ELSE shotFiles
              /\ shotCount' = IF c.saved THEN shotCount + 1 ELSE shotCount
              /\ logged' = logged \cup c.log
              /\ hookRaised' = IF c.raised # "none" THEN c.raised ELSE hookRaised
    /\ pc' = nextPc
    /\ UNCHANGED <<unit, optVars, dirVars, cliVars, navVars, facVars, cfgVars, pgVars, testNo, browser, marked,
                   itemHasMarkers, sess, driverVar, funcargs, yielded, outcome,
                   raised, quitResult, testName>>

MakeReportSetup ==
    MakeReport("setup", IF outcome.setup = "passed" THEN "call" ELSE "teardown")

MakeReportCall == MakeReport("call", "teardown")

MakeReportTeardown == MakeReport("teardown", "idle")

\* The test function runs with the yielded driver and passes or fails.
TestCall ==
    /\ unit = "fixture"
    /\ pc = "call"
    /\ events' = Append(events, "body")
    /\ \E r \in {"passed", "failed"} : outcome' = [outcome EXCEPT !.call = r]
    /\ pc' = "report_call"
    /\ UNCHANGED <<unit, optVars, dirVars, cliVars, navVars, facVars, cfgVars, pgVars, shotVars, testName, captures, hookRaised, testNo, browser, marked, itemHasMarkers, sess,
                   driverVar, funcargs, yielded, logged, raised, quitResult>>

\* The cleanup without its try / except: the error of quit reaches pytest.
DriverCleanupPropagates(q) ==
    IF q = "ok" THEN [outcome |-> "passed", log |-> {}]
    ELSE [outcome |-> "failed", log |-> {}]

\* The fixture's code after the yield:
\*     try: driver.quit()
\*     except Exception as e: logger.error(f"Error quitting driver: ...")
\* q is what driver.quit() did.  A session counts as CLOSED once quit has
\* been called on it.
DriverCleanup(q) ==
    IF q = "ok" THEN [outcome |-> "passed", log |-> {}]
    ELSE [outcome |-> "passed", log |-> {"Error quitting driver"}]

\* pytest's teardown phase: the fixture's finalizer runs only if the
\* generator reached its yield.
DriverFixtureTeardown ==
    /\ unit = "fixture"
    /\ pc = "teardown"
    /\ IF yielded
       THEN \E q \in {"ok", "WebDriverException"} :
              LET c == DriverCleanup(q) IN
              /\ events' = Append(events, "quit")
              /\ quitResult' = q
              /\ sess' = [sess EXCEPT ![driverVar] = "CLOSED"]
              /\ logged' = logged \cup c.log
              /\ outcome' = [outcome EXCEPT !.teardown = c.outcome]
       ELSE /\ outcome' = [outcome EXCEPT !.teardown = "passed"]
            /\ UNCHANGED <<events, sess, logged, quitResult>>
    /\ pc' = "report_teardown"
    /\ UNCHANGED <<unit, optVars, dirVars, cliVars, navVars, facVars, cfgVars, pgVars, shotVars, testName, captures, hookRaised, testNo, browser, marked, itemHasMarkers,
                   driverVar, funcargs, yielded, raised>>

FixtureNext ==
    \/ StartTest
    \/ DriverFixtureDispatch
    \/ DriverFixtureProbe
    \/ DriverFixtureStartLocal
    \/ DriverFixtureInstall
    \/ DriverFixtureStartDownloaded
    \/ DriverFixtureSetWindowSize
    \/ DriverFixtureImplicitlyWait
    \/ DriverFixtureYield
    \/ MakeReportSetup
    \/ TestCall
    \/ MakeReportCall
    \/ DriverFixtureTeardown
    \/ MakeReportTeardown

(***************************************************************************)
(* utilities/screenshot_helper.py: ScreenshotHelper                        *)
(***************************************************************************)
\* What driver.save_screenshot(path) does: it writes the file and returns
\* True; it cannot write the file (an OSError inside the WebDriver library)
\* and returns False; or the screenshot command itself raises.
SaveOutcomes == {"saved", "not saved", "WebDriverException"}

\* The locator value of the page operations, and the names test code passes.
LocatorValue == "submit"

ShotNames == {"", "home"}

NoShots == << >>

\* take_screenshot(name): the name (or "screenshot"), the timestamp, ".png";
\* an exception of save_screenshot is logged and raised again.
TakeScreenshot(name, stamp, save) ==
    [path |-> ScreenshotPath((IF name # "" THEN name ELSE "screenshot")
                             \o "_" \o stamp \o ".png"),
     saved |-> save = "saved",
     kind |-> IF save = "WebDriverException" THEN "raise" ELSE "return",
     exc |-> IF save = "WebDriverException" THEN save ELSE "none",
     log |-> IF save = "WebDriverException"
             THEN {"error: Failed to save screenshot"} ELSE {}]

\* take_failure_screenshot(test_name, error_msg): save_screenshot is not
\* guarded; the error text goes to f"failure_{test_name}_{timestamp}_error.txt"
\* inside try / except Exception (a warning).  w is what writing the text did.
TakeFailureScreenshot(test_name, error_msg, stamp, save, w) ==
    LET png == ScreenshotPath("failure_" \o test_name \o "_" \o stamp \o ".png") IN
    IF save = "WebDriverException"
    THEN [path |-> png, saved |-> FALSE, kind |-> "raise", exc |-> save,
          txt |-> "", log |-> {}]
    ELSE [path |-> png, saved |-> save = "saved", kind |-> "return", exc |-> "none",
          txt |-> IF error_msg # "" /\ w = "ok"
                  THEN ScreenshotPath("failure_" \o test_name \o "_" \o stamp
                                      \o "_error.txt")
                  ELSE "",
          log |-> IF error_msg # "" /\ w # "ok"
                  THEN {"warning: Failed to save error message"} ELSE {}]

\* take_pass_screenshot(test_name)
TakePassScreenshot(test_name, stamp, save) ==
    LET png == ScreenshotPath("pass_" \o test_name \o "_" \o stamp \o ".png") IN
    IF save = "WebDriverException"
    THEN [path |-> png, saved |-> FALSE, kind |-> "raise", exc |-> save,
          txt |-> "", log |-> {}]
    ELSE [path |-> png, saved |-> save = "saved", kind |-> "return", exc |-> "none",
          txt |-> "", log |-> {}]

(***************************************************************************)
(* pages/base_page.py: BasePage                                            *)
(***************************************************************************)
PageOps == {"find_element", "find_elements", "is_element_visible",
            "wait_for_element_visible", "is_element_clickable", "click",
            "get_text", "send_keys", "wait_for_url_contains",
            "wait_for_element_to_disappear"}

\* What WebDriverWait(...).until(...) does.
WaitOutcomes == {"ok", "TimeoutException"}

\* What each operation's except TimeoutException clause does: the prefix of
\* the screenshot it takes ("" when it takes none), and whether it then
\* raises again or returns a value.
TimeoutPolicy(op) ==
    IF op = "find_element" THEN [shot |-> "element_not_found_", then |-> "raise"]
    ELSE IF op = "find_elements" THEN [shot |-> "", then |-> "[]"]
    ELSE IF op = "is_element_visible"
    THEN [shot |-> "element_not_visible_", then |-> "False"]
    ELSE IF op = "wait_for_element_visible"
    THEN [shot |-> "element_not_visible_", then |-> "raise"]
    ELSE IF op = "is_element_clickable" THEN [shot |-> "", then |-> "False"]
    ELSE IF op = "click" THEN [shot |-> "click_failed_", then |-> "raise"]
    ELSE IF op = "get_text" THEN [shot |-> "get_text_failed_", then |-> "raise"]
    ELSE IF op = "send_keys" THEN [shot |-> "send_keys_failed_", then |-> "raise"]
    ELSE IF op = "wait_for_url_contains" THEN [shot |-> "", then |-> "False"]
    ELSE [shot |-> "element_did_not_disappear_", then |-> "raise"]

PageReturns(v, shots, log) ==
    [kind |-> "return", value |-> v, exc |-> "none", shots |-> shots, log |-> log]

PageRaises(exc, shots, log) ==
    [kind |-> "raise", value |-> "none", exc |-> exc, shots |-> shots, log |-> log]

\* The value an operation returns when its wait succeeds.
PageValue(op) ==
    IF op \in {"is_element_visible", "is_element_clickable", "wait_for_url_contains",
               "wait_for_element_to_disappear"} THEN "True"
    ELSE IF op = "find_elements" THEN "[elements]"
    ELSE IF op \in {"find_element", "wait_for_element_visible"} THEN "element"
    ELSE IF op = "get_text" THEN "text"
    ELSE "None"

\* An operation's except TimeoutException clause: log, take the screenshot
\* (nothing guards the call), then raise again or return.  before are the
\* screenshots the operation has already taken.
AfterTimeout(op, before, stamp, save) ==
    LET p == TimeoutPolicy(op)
        sh == TakeScreenshot(p.shot \o LocatorValue, stamp, save)
    IN IF p.shot = ""
       THEN PageReturns(p.then, before, {})
       ELSE IF sh.kind = "raise"
       THEN PageRaises(sh.exc, Append(before, sh), sh.log)
       ELSE IF p.then = "raise"
       THEN PageRaises("TimeoutException", Append(before, sh), sh.log)
       ELSE PageReturns(p.then, Append(before, sh), sh.log)

\* One BasePage operation.  send_keys calls find_element inside its own try,
\* so a timeout runs both except clauses, each with its own screenshot.
BasePageOperation(op, wait, stamp1, save1, stamp2, save2) ==
    IF wait = "ok" THEN PageReturns(PageValue(op), NoShots, {})
    ELSE IF op = "send_keys"
    THEN LET inner == AfterTimeout("find_element", NoShots, stamp1, save1) IN
         IF inner.exc = "TimeoutException"
         THEN LET outer == AfterTimeout(op, inner.shots, stamp2, save2) IN
              [outer EXCEPT !.log = inner.log \cup outer.log]
         ELSE inner
    ELSE AfterTimeout(op, NoShots, stamp1, save1)

NoPageResult ==
    [op |-> "none", wait |-> "none", kind |-> "none", value |-> "none",
     exc |-> "none", shots |-> NoShots, txt |-> "", log |-> {}]

PageIdle ==
    /\ pgCalls = 0
    /\ pgResult = NoPageResult

\* The PNG files of a sequence of screenshots that were saved.
SavedPaths(shots) == {shots[i].path : i \in {j \in DOMAIN shots : shots[j].saved}}

SavedCount(shots) == Cardinality({j \in DOMAIN shots : shots[j].saved})

\* Test code calls a BasePage operation.
PageOperation ==
    /\ unit = "base_page"
    /\ pgCalls < MaxPageCalls
    /\ pgCalls' = pgCalls + 1
    /\ \E op \in PageOps, wait \in WaitOutcomes,
          t1 \in clock .. MaxClock, save1 \in SaveOutcomes, save2 \in SaveOutcomes :
         \E t2 \in t1 .. MaxClock :
           LET r == BasePageOperation(op, wait, Stamp(t1), save1, Stamp(t2), save2) IN
           /\ pgResult' = [op |-> op, wait |-> wait, kind |-> r.kind,
                           value |-> r.value, exc |-> r.exc, shots |-> r.shots,
                           txt |-> "", log |-> r.log]
           /\ clock' = IF Len(r.shots) = 0 THEN clock
                       ELSE IF Len(r.shots) = 1 THEN t1 ELSE t2
           /\ shotFiles' = shotFiles \cup SavedPaths(r.shots)
           /\ shotCount' = shotCount + SavedCount(r.shots)
    /\ UNCHANGED <<unit, optVars, dirVars, cliVars, navVars, fixVars, facVars, cfgVars>>

\* Test code calls the ScreenshotHelper itself: take_screenshot(name),
\* take_failure_screenshot(test_name, error_msg), take_pass_screenshot(test_name).
HelperCapture ==
    /\ unit = "base_page"
    /\ pgCalls < MaxPageCalls
    /\ pgCalls' = pgCalls + 1
    /\ \E fn \in {"take_screenshot", "take_failure_screenshot", "take_pass_screenshot"},
          name \in ShotNames, t \in clock .. MaxClock, save \in SaveOutcomes,
          msg \in {"", "AssertionError"}, w \in {"ok", "OSError"} :
         LET sh == TakeScreenshot(name, Stamp(t), save)
             r == IF fn = "take_screenshot"
                  THEN [path |-> sh.path, saved |-> sh.saved, kind |-> sh.kind,
                        exc |-> sh.exc, txt |-> "", log |-> sh.log]
                  ELSE IF fn = "take_failure_screenshot"
                  THEN TakeFailureScreenshot(ItemName(1), msg, Stamp(t), save, w)
                  ELSE TakePassScreenshot(ItemName(1), Stamp(t), save)
             shot == [path |-> r.path, saved |-> r.saved, kind |-> r.kind,
                      exc |-> r.exc, log |-> r.log]
         IN
         /\ pgResult' = [op |-> fn, wait |-> "none", kind |-> r.kind,
                         value |-> IF r.kind = "return" THEN r.path ELSE "none",
                         exc |-> r.exc, shots |-> <<shot>>, txt |-> r.txt,
                         log |-> r.log]
         /\ clock' = t
         /\ shotFiles' = IF r.saved THEN shotFiles \cup {r.path} ELSE shotFiles
         /\ shotCount' = IF r.saved THEN shotCount + 1 ELSE shotCount
    /\ UNCHANGED <<unit, optVars, dirVars, cliVars, navVars, fixVars, facVars, cfgVars>>

PageNext ==
    \/ PageOperation
    \/ HelperCapture

(***************************************************************************)
(* utilities/driver_factory.py: DriverFactory                              *)
(***************************************************************************)
\* Hard-coded defaults of _configure_driver.
DefaultWidth == 1920

DefaultHeight == 1080

DefaultImplicitWait == 10

EmptyMap == [k \in {} |-> 0]

\* browser_config=None
NoneCfg == [None |-> TRUE]

Get(m, k, default) == IF k \in DOMAIN m THEN m[k] ELSE default

\* Browser configurations a caller passes.
FactoryConfigs ==
    { NoneCfg,
      EmptyMap,
      [window_size |-> [width |-> 800, height |-> 600], implicit_wait |-> 5,
       arguments |-> <<"--no-sandbox">>, preferences |-> [download |-> 1]],
      [window_size |-> [width |-> 800]] }

Platforms == {"Darwin-arm64", "Linux-x86_64"}

\* The branches of create_driver's if / elif chain.
FactoryBrowsers == {"chrome", "firefox"}

DriverName(b) == IF b = "chrome" THEN "chromedriver" ELSE "geckodriver"

\* Outcomes of subprocess.run([name, "--version"], ..., check=True, timeout=5).
FactoryProbeOutcomes ==
    {"ok", "CalledProcessError", "FileNotFoundError", "TimeoutExpired",
     "PermissionError"}

NoResult == [kind |-> "none", exc |-> "none", chain |-> << >>]

Returned == [kind |-> "return", exc |-> "none", chain |-> << >>]

\* raise exc, whose __cause__ chain is chain (outermost cause first).
Raised(exc, chain) == [kind |-> "raise", exc |-> exc, chain |-> chain]

FactoryIdle ==
    /\ facPc = "idle"
    /\ facArgs = [browser |-> "none", headless |-> FALSE, config |-> NoneCfg]
    /\ facOptions = [arguments |-> << >>, prefs |-> EmptyMap]
    /\ facProbe = "none"
    /\ facDriverPath = << >>
    /\ facBin = [exists |-> FALSE, exec |-> FALSE]
    /\ facPath = << >>
    /\ facSession = "none"
    /\ facApplied = [window |-> << >>, wait |-> -1]
    /\ facConfigured = "none"
    /\ facResult = NoResult
    /\ facEffects = << >>
    /\ facLog = {}

\* create_driver: browser_config = browser_config or {}, then the dispatch on
\* the browser name.  effects are the process-level effects of this step.
FactoryDispatchProbesFirst(b) ==
    IF b \in FactoryBrowsers
    THEN [next |-> "probe", result |-> NoResult, effects |-> << >>]
    ELSE [next |-> "done", result |-> Raised("ValueError", << >>),
          effects |-> <<"probe">>]

FactoryDispatch(b) ==
    IF b \in FactoryBrowsers
    THEN [next |-> "probe", result |-> NoResult, effects |-> << >>]
    ELSE [next |-> "done", result |-> Raised("ValueError", << >>),
          effects |-> << >>]

\* The options _create_chrome_driver / _create_firefox_driver build: the
\* headless flag, then every configured argument, then the preferences.
HeadlessFlag(b) == IF b = "chrome" THEN "--headless=new" ELSE "--headless"

BuildOptions(b, headless, config) ==
    [arguments |-> (IF headless THEN <<HeadlessFlag(b)>> ELSE << >>)
                     \o Get(config, "arguments", << >>),
     prefs |-> Get(config, "preferences", EmptyMap)]

CreateDriver ==
    /\ unit = "factory"
    /\ facPc = "idle"
    /\ \E b \in BrowserNames, h \in BOOLEAN, c \in FactoryConfigs :
         LET config == IF c = NoneCfg THEN EmptyMap ELSE c
             d == FactoryDispatch(b) IN
         /\ facArgs' = [browser |-> b, headless |-> h, config |-> config]
         /\ facOptions' = IF d.next = "probe" THEN BuildOptions(b, h, config)
                          ELSE facOptions
         /\ facPc' = d.next
         /\ facResult' = d.result
         /\ facEffects' = facEffects \o d.effects
    /\ UNCHANGED <<unit, optVars, dirVars, cliVars, navVars, facProbe, fixVars, cfgVars, shotVars, pgVars, facPlatform, facDriverPath, facBin, facPath,
                   facSession, facApplied, facConfigured, facLog>>

\* except Exception as e: raise DriverInitializationError(error_msg) from e
\* around the probe, the path resolution and the constructor.
WrapInitErrorMissing(exc, chain) == Raised(exc, chain)

WrapInitError(exc, chain) ==
    Raised("DriverInitializationError", <<exc>> \o chain)

\* _check_driver_in_path: True, False, or an exception it does not catch.
CheckDriverInPath(r) ==
    IF r = "ok" THEN [ret |-> TRUE, exc |-> "none"]
    ELSE IF r \in {"CalledProcessError", "FileNotFoundError", "TimeoutExpired"}
    THEN [ret |-> FALSE, exc |-> "none"]
    ELSE [ret |-> FALSE, exc |-> r]

FactoryProbe ==
    /\ unit = "factory"
    /\ facPc = "probe"
    /\ facEffects' = Append(facEffects, "probe")
    /\ \E r \in FactoryProbeOutcomes :
         /\ facProbe' = r
         /\ LET c == CheckDriverInPath(r) IN
            IF c.exc # "none"
            THEN /\ facResult' = WrapInitError(c.exc, << >>)
                 /\ facLog' = facLog \cup {"error: Failed to initialize driver"}
                 /\ facPc' = "done"
                 /\ UNCHANGED facPath
            ELSE IF c.ret
            THEN /\ facPath' = <<"PATH">>
                 /\ facPc' = "start"
                 /\ UNCHANGED <<facResult, facLog>>
            ELSE /\ facPc' = "install"
                 /\ UNCHANGED <<facResult, facLog, facPath>>
    /\ UNCHANGED <<unit, optVars, dirVars, cliVars, navVars, fixVars, cfgVars, shotVars, pgVars, facArgs, facPlatform, facOptions,
                   facDriverPath, facBin, facSession, facApplied, facConfigured>>

\* Where webdriver-manager puts a driver, and what install() may return:
\* the directory, the binary, or another file beside the binary.
CacheDir == <<"cache", "drivers">>

InstallPaths(name) ==
    {CacheDir, Append(CacheDir, name), Append(CacheDir, "THIRD_PARTY_NOTICES")}

IsDir(p) == p = CacheDir

Basename(p) == p[Len(p)]

Dirname(p) == SubSeq(p, 1, Len(p) - 1)

\* _get_driver_path, lines 61-68: the executable's path.
ActualPath(p, name) ==
    IF IsDir(p) THEN Append(p, name)
    ELSE IF Basename(p) = name THEN p
    ELSE Append(Dirname(p), name)

\* _get_driver_path, lines 53-59: driver_manager.install()
FactoryInstall ==
    /\ unit = "factory"
    /\ facPc = "install"
    /\ facEffects' = Append(facEffects, "download")
    /\ \/ \* install() raises: DriverInitializationError from e, wrapped again
          /\ facResult' = WrapInitError("DriverInitializationError", <<"Exception">>)
          /\ facLog' = facLog \cup {"error: Failed to install driver",
                                    "error: Failed to initialize driver"}
          /\ facPc' = "done"
          /\ UNCHANGED <<facDriverPath, facBin>>
       \/ \E p \in InstallPaths(DriverName(facArgs.browser)),
             ex \in BOOLEAN, x \in BOOLEAN :
            /\ (x => ex)
            /\ facDriverPath' = p
            /\ facBin' = [exists |-> ex, exec |-> x]
            /\ facLog' = facLog \cup {"info: Downloaded/installed driver"}
            /\ facPc' = "resolve"
            /\ UNCHANGED facResult
    /\ UNCHANGED <<unit, optVars, dirVars, cliVars, navVars, facProbe, fixVars, cfgVars, shotVars, pgVars, facArgs, facPlatform, facOptions, facPath,
                   facSession, facApplied, facConfigured>>

\* _get_driver_path, lines 70-84: the existence check and the chmod.
FactoryResolve ==
    /\ unit = "factory"
    /\ facPc = "resolve"
    /\ LET actual == ActualPath(facDriverPath, DriverName(facArgs.browser)) IN
       IF ~facBin.exists
       THEN /\ facResult' = WrapInitError("DriverInitializationError", << >>)
            /\ facLog' = facLog \cup {"error: Driver executable not found",
                                      "error: Failed to initialize driver"}
            /\ facPc' = "done"
            /\ UNCHANGED <<facPath, facBin, facEffects>>
       ELSE IF ~facBin.exec
       THEN /\ facEffects' = Append(facEffects, "chmod")
            /\ \E chm \in {"ok", "OSError"} :
                 IF chm = "ok"
                 THEN facBin' = [facBin EXCEPT !.exec = TRUE] /\ UNCHANGED facLog
                 ELSE /\ facLog' = facLog \cup {"warning: Could not set executable permissions"}
                      /\ UNCHANGED facBin
            /\ facPath' = actual
            /\ facPc' = "start"
            /\ UNCHANGED facResult
       ELSE /\ facPath' = actual
            /\ facPc' = "start"
            /\ UNCHANGED <<facResult, facBin, facEffects, facLog>>
    /\ UNCHANGED <<unit, optVars, dirVars, cliVars, navVars, facProbe, fixVars, cfgVars, shotVars, pgVars, facArgs, facPlatform, facOptions,
                   facDriverPath, facSession, facApplied, facConfigured>>

\* webdriver.Chrome / Firefox(service=..., options=options).  A downloaded
\* driver that is not executable cannot be started.
FactoryStart ==
    /\ unit = "factory"
    /\ facPc = "start"
    /\ facEffects' = Append(facEffects, "start")
    /\ \E r \in {"ok", "WebDriverException"} :
         /\ (r = "ok" /\ facPath # <<"PATH">>) => facBin.exec
         /\ IF r = "ok"
            THEN /\ facSession' = "LIVE"
                 /\ facPc' = "configure"
                 /\ UNCHANGED <<facResult, facLog>>
            ELSE /\ facResult' = WrapInitError(r, << >>)
                 /\ facLog' = facLog \cup {"error: Failed to initialize driver"}
                 /\ facPc' = "done"
                 /\ UNCHANGED facSession
    /\ UNCHANGED <<unit, optVars, dirVars, cliVars, navVars, facProbe, fixVars, cfgVars, shotVars, pgVars, facArgs, facPlatform, facOptions,
                   facDriverPath, facBin, facPath, facApplied, facConfigured>>

\* _configure_driver: set_window_size, then implicitly_wait, inside
\* try / except Exception, which logs a warning and does not raise.
\* r is what the two driver calls did.
ConfigureOutcomes == {"ok", "set_window_size raises", "implicitly_wait raises"}

WindowOf(config) ==
    LET ws == Get(config, "window_size", EmptyMap) IN
    <<Get(ws, "width", DefaultWidth), Get(ws, "height", DefaultHeight)>>

\* The same without the try / except.
ConfigureDriverRaises(config, r) ==
    [window |-> IF r = "set_window_size raises" THEN << >> ELSE WindowOf(config),
     wait |-> IF r = "ok" THEN Get(config, "implicit_wait", DefaultImplicitWait) ELSE -1,
     log |-> {},
     exc |-> IF r = "ok" THEN "none" ELSE "WebDriverException"]

ConfigureDriver(config, r) ==
    [window |-> IF r = "set_window_size raises" THEN << >> ELSE WindowOf(config),
     wait |-> IF r = "ok" THEN Get(config, "implicit_wait", DefaultImplicitWait) ELSE -1,
     log |-> IF r = "ok" THEN {} ELSE {"warning: Error configuring driver settings"},
     exc |-> "none"]

\* _create_*_driver, lines 161-163: configure the driver and return it.
FactoryConfigure ==
    /\ unit = "factory"
    /\ facPc = "configure"
    /\ \E r \in ConfigureOutcomes :
         LET c == ConfigureDriver(facArgs.config, r) IN
         /\ facApplied' = [window |-> c.window, wait |-> c.wait]
         /\ facConfigured' = r
         /\ facLog' = facLog \cup c.log
         /\ facResult' = IF c.exc = "none" THEN Returned
                         ELSE Raised(c.exc, << >>)
    /\ facPc' = "done"
    /\ UNCHANGED <<unit, optVars, dirVars, cliVars, navVars, facProbe, fixVars, cfgVars, shotVars, pgVars, facArgs, facPlatform, facOptions,
                   facDriverPath, facBin, facPath, facSession, facEffects>>

FactoryNext ==
    \/ CreateDriver
    \/ FactoryProbe
    \/ FactoryInstall
    \/ FactoryResolve
    \/ FactoryStart
    \/ FactoryConfigure

(***************************************************************************)
(* Configuration files and json.load                                       *)
(***************************************************************************)
MainConfigFile == "config/config.json"

EnvConfigFile == "config/environments.json"

FixturesFile == "data/fixtures.json"

TestDataFile == "test_data/test_data.json"

DefaultEnvFile == "test_data/default.json"

BrowserConfigFile == "test_data/browser_config.json"

\* The files ConfigManager._load_all_configs reads, in its order.
ManagerFiles == <<MainConfigFile, EnvConfigFile, FixturesFile>>

\* The files the test_data fixture reads, in its order, and the key of the
\* result each one fills.
TestDataFiles == <<TestDataFile, DefaultEnvFile, BrowserConfigFile>>

TestDataKeys == <<"test_data", "env_config", "browser_config">>

Files == {MainConfigFile, EnvConfigFile, FixturesFile, TestDataFile,
          DefaultEnvFile, BrowserConfigFile}

Range(q) == {q[i] : i \in DOMAIN q}

\* Contents a file may have.
TextEmptyObject == "{}"

TextObject == "{\"browser\": {\"default\": \"chrome\"}}"

TextArray == "[1]"

TextBrowsers ==
    "{\"browser\": {\"implicit_wait\": 5, \"chrome\": {\"arguments\": [\"--no-sandbox\"]}}}"

TextEnvironments ==
    "{\"default\": {\"url\": \"d\"}, \"environments\": {\"dev\": {\"url\": \"dev\"}}}"

TextTruncated == "{\"browser\": "

TextNotUtf8 == "\\xff\\xfe"

Texts == {TextEmptyObject, TextObject, TextArray, TextBrowsers,
          TextEnvironments, TextTruncated, TextNotUtf8}

FileStates == {"absent", "unreadable"} \cup Texts

\* A JSON array, as json.load returns it (a list, not a mapping).
JsonArray(items) == [json_array |-> items]

\* A JSON string that code may take for a mapping.
JsonString(str) == [json_string |-> str]

IsString(v) == "json_string" \in DOMAIN v

IsMapping(v) == DOMAIN v \cap {"json_array", "json_string"} = {}

\* open(path, 'r', encoding='utf-8') and json.load(f) on a file that exists.
OpenAndLoad(st) ==
    IF st = "unreadable" THEN [ok |-> FALSE, exc |-> "PermissionError", value |-> EmptyMap]
    ELSE IF st = TextNotUtf8 THEN [ok |-> FALSE, exc |-> "UnicodeDecodeError", value |-> EmptyMap]
    ELSE IF st = TextTruncated THEN [ok |-> FALSE, exc |-> "JSONDecodeError", value |-> EmptyMap]
    ELSE IF st = TextEmptyObject THEN [ok |-> TRUE, exc |-> "none", value |-> EmptyMap]
    ELSE IF st = TextArray THEN [ok |-> TRUE, exc |-> "none", value |-> JsonArray(<<1>>)]
    ELSE IF st = TextBrowsers
    THEN [ok |-> TRUE, exc |-> "none",
          value |-> [browser |-> [implicit_wait |-> 5,
                                  chrome |-> [arguments |-> JsonArray(<<"--no-sandbox">>)]]]]
    ELSE IF st = TextEnvironments
    THEN [ok |-> TRUE, exc |-> "none",
          value |-> [default |-> [url |-> "d"],
                     environments |-> [dev |-> [url |-> "dev"]]]]
    ELSE [ok |-> TRUE, exc |-> "none",
          value |-> [browser |-> [default |-> JsonString("chrome")]]]

\* os.path.exists(path)
PathExists(st) == st # "absent"

(***************************************************************************)
(* utilities/config_manager.py: ConfigManager                              *)
(***************************************************************************)
NotLoaded == [kind |-> "none", exc |-> "none", cause |-> "none",
              value |-> EmptyMap, log |-> {}]

\* _load_config_file without its last handler (except Exception).
LoadConfigFileJsonOnly(st) ==
    IF PathExists(st)
    THEN LET r == OpenAndLoad(st) IN
         IF r.ok
         THEN [kind |-> "return", exc |-> "none", cause |-> "none",
               value |-> r.value, log |-> {"info: Loaded"}]
         ELSE IF r.exc = "JSONDecodeError"
         THEN [kind |-> "raise", exc |-> "ConfigLoadError", cause |-> r.exc,
               value |-> EmptyMap, log |-> {"error: Invalid JSON"}]
         ELSE [kind |-> "raise", exc |-> r.exc, cause |-> "none",
               value |-> EmptyMap, log |-> {}]
    ELSE [kind |-> "return", exc |-> "none", cause |-> "none",
          value |-> EmptyMap, log |-> {"warning: file not found"}]

\* _load_config_file(file_path, description) for a file in state st.
LoadConfigFile(st) ==
    IF PathExists(st)
    THEN LET r == OpenAndLoad(st) IN
         IF r.ok
         THEN [kind |-> "return", exc |-> "none", cause |-> "none",
               value |-> r.value, log |-> {"info: Loaded"}]
         ELSE IF r.exc = "JSONDecodeError"
         THEN [kind |-> "raise", exc |-> "ConfigLoadError", cause |-> r.exc,
               value |-> EmptyMap, log |-> {"error: Invalid JSON"}]
         ELSE [kind |-> "raise", exc |-> "ConfigLoadError", cause |-> r.exc,
               value |-> EmptyMap, log |-> {"error: Error loading"}]
    ELSE [kind |-> "return", exc |-> "none", cause |-> "none",
          value |-> EmptyMap, log |-> {"warning: file not found"}]

\* The instance's fields as __init__ sets them before loading.
EmptyState == [config |-> EmptyMap, browser_config |-> EmptyMap,
               env_config |-> EmptyMap, test_data |-> EmptyMap]

\* The files a load opened: open() is reached for a file that exists.
Opened(fsys, files, loads) ==
    SelectSeq(files, LAMBDA f : loads[f].kind # "none" /\ PathExists(fsys[f]))

\* _load_all_configs: the three loads in order, the first exception ends it.
\* self._config.get("browser", {}) raises AttributeError on a list.
LoadAllConfigs(fsys) ==
    LET none == [f \in Files |-> NotLoaded]
        r1 == LoadConfigFile(fsys[MainConfigFile])
        l1 == [none EXCEPT ![MainConfigFile] = r1]
        r2 == LoadConfigFile(fsys[EnvConfigFile])
        l2 == [l1 EXCEPT ![EnvConfigFile] = r2]
        r3 == LoadConfigFile(fsys[FixturesFile])
        l3 == [l2 EXCEPT ![FixturesFile] = r3]
        s1 == [EmptyState EXCEPT !.config = r1.value]
        s1b == [s1 EXCEPT !.browser_config = Get(r1.value, "browser", EmptyMap)]
        s2 == [s1b EXCEPT !.env_config = r2.value]
        s3 == [s2 EXCEPT !.test_data = r3.value]
    IN
    IF r1.kind = "raise"
    THEN [state |-> EmptyState, loads |-> l1, exc |-> r1.exc, cause |-> r1.cause]
    ELSE IF ~IsMapping(r1.value)
    THEN [state |-> s1, loads |-> l1, exc |-> "AttributeError", cause |-> "none"]
    ELSE IF r2.kind = "raise"
    THEN [state |-> s1b, loads |-> l2, exc |-> r2.exc, cause |-> r2.cause]
    ELSE IF r3.kind = "raise"
    THEN [state |-> s2, loads |-> l3, exc |-> r3.exc, cause |-> r3.cause]
    ELSE [state |-> s3, loads |-> l3, exc |-> "none", cause |-> "none"]

UnionLogs(loads) == UNION {loads[f].log : f \in Files}

\* ConfigManager(): __new__ returns the one instance, creating it the first
\* time; __init__ loads everything unless _initialized is set, and sets it
\* only after _load_all_configs has returned.
ConstructConfigManager ==
    /\ unit = "config_manager"
    /\ cmConstructs < MaxConstructs
    /\ cmConstructs' = cmConstructs + 1
    /\ cmInstance' = TRUE
    /\ IF cmInitialized
       THEN /\ cmResult' = [kind |-> "return", exc |-> "none", cause |-> "none"]
            /\ UNCHANGED <<cmInitialized, cmState, cmLoads, cmReads, cmLog>>
       ELSE LET a == LoadAllConfigs(fs) IN
            /\ cmState' = a.state
            /\ cmLoads' = a.loads
            /\ cmReads' = cmReads \o Opened(fs, ManagerFiles, a.loads)
            /\ cmLog' = cmLog \cup UnionLogs(a.loads)
            /\ cmInitialized' = (a.exc = "none")
            /\ cmResult' = IF a.exc = "none"
                           THEN [kind |-> "return", exc |-> "none", cause |-> "none"]
                           ELSE [kind |-> "raise", exc |-> a.exc, cause |-> a.cause]
    /\ UNCHANGED <<unit, optVars, dirVars, cliVars, navVars, fixVars, facVars, shotVars, pgVars, fs, tdDir, getVars, fxResult, fxLog>>

(***************************************************************************)
(* utilities/config_manager.py: the accessors                              *)
(***************************************************************************)
\* Hard-coded defaults of get_browser_config.
ManagerDefaultImplicitWait == 10

ManagerDefaultWidth == 1920

ManagerDefaultHeight == 1080

\* An argument left out (the parameter takes its default, None), and None.
Omitted == "<omitted>"

PyNone == "<None>"

\* Python's truth value of a str-or-None argument and of a mapping.
TruthyArg(a) == a \notin {PyNone, ""}

TruthyMapping(m) == DOMAIN m # {}

BrowserArgs == {Omitted, "chrome", "safari", "default"}

EnvArgs == {Omitted, PyNone, "dev", "qa", "default"}

\* The accessor calls a caller makes.
AccessorCalls ==
    {[fn |-> "get_config", arg |-> Omitted],
     [fn |-> "get_test_data", arg |-> Omitted],
     [fn |-> "get_all_configs", arg |-> Omitted]}
    \cup {[fn |-> "get_browser_config", arg |-> a] : a \in BrowserArgs}
    \cup {[fn |-> "get_env_config", arg |-> a] : a \in EnvArgs}

NoResultYet == [kind |-> "none", exc |-> "none", value |-> EmptyMap, warnings |-> 0]

NoCall == [call |-> [fn |-> "none", arg |-> Omitted], result |-> NoResultYet]

GetterReturns(v, w) == [kind |-> "return", exc |-> "none", value |-> v, warnings |-> w]

GetterRaises(exc) == [kind |-> "raise", exc |-> exc, value |-> EmptyMap, warnings |-> 0]

\* dict.update: d with every key of u set to u's value.
DictUpdate(d, u) ==
    [k \in DOMAIN d \cup DOMAIN u |-> IF k \in DOMAIN u THEN u[k] ELSE d[k]]

\* dict.update(v) takes a mapping, or an iterable of pairs: an empty string
\* or list changes nothing; a string with characters, a list whose items
\* are not pairs, raise ValueError.
UpdateAccepts(v) ==
    IF IsString(v) THEN v.json_string = ""
    ELSE IF ~IsMapping(v) THEN v.json_array = << >>
    ELSE TRUE

\* get_config()
GetConfig(s) == GetterReturns(s.config, 0)

\* The default record get_browser_config builds for a browser section bc.
BrowserDefaultConfig(bc) ==
    [implicit_wait |-> Get(bc, "implicit_wait", ManagerDefaultImplicitWait),
     arguments |-> JsonArray(<< >>),
     preferences |-> EmptyMap,
     window_size |-> Get(bc, "window_size",
                         [width |-> ManagerDefaultWidth,
                          height |-> ManagerDefaultHeight])]

\* get_browser_config(browser=None)
GetBrowserConfig(s, a) ==
    LET name == IF a = Omitted THEN PyNone ELSE a
        bc == s.browser_config
    IN
    IF ~TruthyArg(name) THEN GetterReturns(bc, 0)
    ELSE IF ~IsMapping(bc) THEN GetterRaises("AttributeError")
    ELSE LET browser_specific == Get(bc, name, EmptyMap) IN
         IF ~UpdateAccepts(browser_specific) THEN GetterRaises("ValueError")
         ELSE GetterReturns(DictUpdate(BrowserDefaultConfig(bc),
                                       IF IsMapping(browser_specific)
                                       THEN browser_specific ELSE EmptyMap),
                            IF ~TruthyMapping(browser_specific)
                               /\ name \notin {"chrome", "firefox"}
                            THEN 1 ELSE 0)

\* get_env_config indexing the environments (envs[env]) instead of envs.get.
GetEnvConfigIndexing(s, a) ==
    LET env == IF a = Omitted THEN PyNone ELSE a
        ec == s.env_config
    IN
    IF ~IsMapping(ec) THEN GetterRaises("AttributeError")
    ELSE IF TruthyArg(env)
    THEN LET envs == Get(ec, "environments", EmptyMap) IN
         IF ~IsMapping(envs) THEN GetterRaises("AttributeError")
         ELSE IF env \notin DOMAIN envs THEN GetterRaises("KeyError")
         ELSE GetterReturns(envs[env], IF TruthyMapping(envs[env]) THEN 0 ELSE 1)
    ELSE LET default_config == Get(ec, "default", EmptyMap) IN
         GetterReturns(default_config, IF TruthyMapping(default_config) THEN 0 ELSE 1)

\* get_env_config(env=None)
GetEnvConfig(s, a) ==
    LET env == IF a = Omitted THEN PyNone ELSE a
        ec == s.env_config
    IN
    IF ~IsMapping(ec) THEN GetterRaises("AttributeError")
    ELSE IF TruthyArg(env)
    THEN LET envs == Get(ec, "environments", EmptyMap) IN
         IF ~IsMapping(envs) THEN GetterRaises("AttributeError")
         ELSE LET env_config == Get(envs, env, EmptyMap) IN
              GetterReturns(env_config, IF TruthyMapping(env_config) THEN 0 ELSE 1)
    ELSE LET default_config == Get(ec, "default", EmptyMap) IN
         GetterReturns(default_config, IF TruthyMapping(default_config) THEN 0 ELSE 1)

\* get_test_data()
GetTestData(s) == GetterReturns(s.test_data, 0)

\* get_all_configs()
GetAllConfigs(s) ==
    GetterReturns([test_data |-> s.test_data, env_config |-> s.env_config,
                   browser_config |-> s.browser_config], 0)

Accessor(s, c) ==
    IF c.fn = "get_config" THEN GetConfig(s)
    ELSE IF c.fn = "get_browser_config" THEN GetBrowserConfig(s, c.arg)
    ELSE IF c.fn = "get_env_config" THEN GetEnvConfig(s, c.arg)
    ELSE IF c.fn = "get_test_data" THEN GetTestData(s)
    ELSE GetAllConfigs(s)

\* A caller calls an accessor on the initialised instance.  A behaviour
\* follows one accessor call and its repetitions.
CallAccessor ==
    /\ unit = "config_manager"
    /\ cmInitialized
    /\ cmCalls < MaxCalls
    /\ cmCalls' = cmCalls + 1
    /\ \E c \in AccessorCalls :
         LET r == [call |-> c, result |-> Accessor(cmState, c)] IN
         /\ cmCalls > 0 => c = cmFirst.call
         /\ cmLast' = r
         /\ cmFirst' = IF cmCalls = 0 THEN r ELSE cmFirst
    /\ UNCHANGED <<unit, optVars, dirVars, cliVars, navVars, fixVars, facVars, shotVars, pgVars, fs, tdDir, cmInstance, cmInitialized,
                   cmState, cmConstructs, cmLoads, cmReads, cmResult, cmLog,
                   cmMutations, fxResult, fxLog>>

\* The objects inside the instance that a returned value is, or holds: the
\* accessors return the instance's own dictionaries (never a copy), and the
\* record get_browser_config(name) builds holds the entry's own values.
\* Each is named by its place in the instance's fields.
RECURSIVE HasPath(_, _)
HasPath(v, path) ==
    IF path = << >> THEN TRUE
    ELSE /\ IsMapping(v)
         /\ Head(path) \in DOMAIN v
         /\ HasPath(v[Head(path)], Tail(path))

HandedOut(c) ==
    IF c.fn = "get_config" THEN {<<"config">>, <<"config", "browser">>}
    ELSE IF c.fn = "get_test_data" THEN {<<"test_data">>}
    ELSE IF c.fn = "get_all_configs"
    THEN {<<"test_data">>, <<"env_config">>, <<"browser_config">>}
    ELSE IF c.fn = "get_browser_config"
    THEN IF c.arg = Omitted THEN {<<"browser_config">>}
         ELSE {<<"browser_config", c.arg, "arguments">>}
    ELSE IF c.arg \in {Omitted, PyNone} THEN {<<"env_config", "default">>}
    ELSE {<<"env_config", "environments", c.arg>>}

\* The objects of the instance the callers of c hold a reference to.
Held(s, c) == {p \in HandedOut(c) : HasPath(s, p)}

\* What a caller does to an object it holds: list.append, or dict[key] = value.
Touch(v) ==
    IF IsMapping(v)
    THEN [k \in DOMAIN v \cup {"added"} |-> IF k = "added" THEN "by caller" ELSE v[k]]
    ELSE JsonArray(Append(v.json_array, "added"))

RECURSIVE TouchAt(_, _)
TouchAt(v, path) ==
    IF path = << >> THEN Touch(v)
    ELSE [v EXCEPT ![Head(path)] = TouchAt(@, Tail(path))]

\* _browser_config is the very object stored under "browser" in _config
\* (line 77) when the main configuration has that key.
SharedBrowserSection(s, t, path) ==
    IF "browser" \notin DOMAIN s.config THEN t
    ELSE IF Head(path) = "config" THEN [t EXCEPT !.browser_config = t.config.browser]
    ELSE IF Head(path) = "browser_config"
    THEN [t EXCEPT !.config = [t.config EXCEPT !.browser = t.browser_config]]
    ELSE t

\* A caller changes an object the accessor call handed out.
CallerMutates ==
    /\ unit = "config_manager"
    /\ cmFirst.result.kind = "return"
    /\ cmMutations < MaxMutations
    /\ cmMutations' = cmMutations + 1
    /\ \E p \in Held(cmState, cmFirst.call) :
         cmState' = SharedBrowserSection(cmState, TouchAt(cmState, p), p)
    /\ UNCHANGED <<unit, optVars, dirVars, cliVars, navVars, fixVars, facVars, shotVars, pgVars, fs, tdDir, cmInstance, cmInitialized,
                   cmConstructs, cmLoads, cmReads, cmResult, cmLog,
                   cmCalls, cmFirst, cmLast, fxResult, fxLog>>

(***************************************************************************)
(* tests/conftest.py: the session-scoped config and test_data fixtures     *)
(***************************************************************************)
\* The configuration the config fixture returns when config.json is absent.
DefaultFixtureConfig ==
    [browser |-> [default |-> "chrome",
                  chrome |-> [headless |-> FALSE, implicit_wait |-> 10]]]

NoFixtureResult == [kind |-> "none", exc |-> "none", value |-> EmptyMap]

\* config(): open and json.load inside try / except FileNotFoundError.
ConfigFixtureLoad(st) ==
    IF ~PathExists(st)
    THEN [kind |-> "return", exc |-> "none", value |-> DefaultFixtureConfig]
    ELSE LET r == OpenAndLoad(st) IN
         IF r.ok THEN [kind |-> "return", exc |-> "none", value |-> r.value]
         ELSE [kind |-> "raise", exc |-> r.exc, value |-> EmptyMap]

ConfigFixture ==
    /\ unit = "config_fixture"
    /\ fxResult = NoFixtureResult
    /\ fxResult' = ConfigFixtureLoad(fs[MainConfigFile])
    /\ UNCHANGED <<unit, optVars, dirVars, cliVars, navVars, fixVars, facVars, shotVars, pgVars, fs, tdDir, cmInstance, cmInitialized,
                   cmState, cmConstructs, cmLoads, cmReads, cmResult, cmLog,
                   getVars, fxLog>>

EmptyTestData == [test_data |-> EmptyMap, env_config |-> EmptyMap,
                  browser_config |-> EmptyMap]

\* The body of test_data()'s try block from file number i on, with the
\* result built so far: each file that exists is opened and parsed into its
\* key; the first exception ends the block.
RECURSIVE TestDataLoadFrom(_, _, _)
TestDataLoadFrom(fsys, i, acc) ==
    IF i > Len(TestDataFiles) THEN [value |-> acc, exc |-> "none"]
    ELSE LET st == fsys[TestDataFiles[i]] IN
         IF ~PathExists(st) THEN TestDataLoadFrom(fsys, i + 1, acc)
         ELSE LET r == OpenAndLoad(st) IN
              IF r.ok
              THEN TestDataLoadFrom(fsys, i + 1,
                                    [acc EXCEPT ![TestDataKeys[i]] = r.value])
              ELSE [value |-> acc, exc |-> r.exc]

\* test_data(): os.makedirs when the directory is missing, the three loads,
\* and  except Exception as e: logger.error(...); return result.
TestDataLoad(fsys, dir) ==
    LET body == IF dir = "uncreatable"
                THEN [value |-> EmptyTestData, exc |-> "PermissionError"]
                ELSE TestDataLoadFrom(fsys, 1, EmptyTestData)
    IN [kind |-> "return", exc |-> "none", value |-> body.value,
        log |-> IF body.exc = "none" THEN {}
                ELSE {"error: Error loading test data"}]

TestDataFixture ==
    /\ unit = "test_data_fixture"
    /\ fxResult = NoFixtureResult
    /\ LET r == TestDataLoad(fs, tdDir) IN
       /\ fxResult' = [kind |-> r.kind, exc |-> r.exc, value |-> r.value]
       /\ fxLog' = r.log
       /\ tdDir' = IF tdDir = "absent" THEN "present" ELSE tdDir
    /\ UNCHANGED <<unit, optVars, dirVars, cliVars, navVars, fixVars, facVars, shotVars, pgVars, fs, cmInstance, cmInitialized,
                   cmState, cmConstructs, cmLoads, cmReads, cmResult, cmLog,
                   getVars>>

\* The files each component reads.
ReadBy(u) ==
    IF u = "config_manager" THEN Range(ManagerFiles)
    ELSE IF u = "config_fixture" THEN {MainConfigFile}
    ELSE IF u = "test_data_fixture" THEN Range(TestDataFiles)
    ELSE {}

ConfigIdle ==
    /\ cmInstance = FALSE
    /\ cmInitialized = FALSE
    /\ cmState = EmptyState
    /\ cmConstructs = 0
    /\ cmLoads = [f \in Files |-> NotLoaded]
    /\ cmReads = << >>
    /\ cmResult = [kind |-> "none", exc |-> "none", cause |-> "none"]
    /\ cmLog = {}
    /\ cmCalls = 0
    /\ cmFirst = NoCall
    /\ cmLast = NoCall
    /\ cmMutations = 0
    /\ fxResult = NoFixtureResult
    /\ fxLog = {}

ConfigNext ==
    \/ ConstructConfigManager
    \/ CallAccessor
    \/ CallerMutates
    \/ ConfigFixture
    \/ TestDataFixture

(***************************************************************************)
(* tests/conftest.py: the run-level options of the driver fixture          *)
(***************************************************************************)
\* parser.addoption("--browser", action="store", default="chrome")
OptionDefaultBrowser == "chrome"

\* The command line of a pytest run: --browser <name> or no --browser, and
\* --headless (action="store_true") given or not.
CommandLines == [browser : {Omitted} \cup BrowserNames, headless : BOOLEAN]

\* Configurations the config fixture holds: the default browser's name and
\* a headless entry for each browser.
LoadedConfigs ==
    {DefaultFixtureConfig,
     [browser |-> [default |-> "firefox",
                   chrome |-> [headless |-> FALSE, implicit_wait |-> 10],
                   firefox |-> [headless |-> TRUE, implicit_wait |-> 10]]]}

\* Contents of test_data["browser_config"].
BrowserConfigFiles ==
    {EmptyMap,
     [chrome |-> [implicit_wait |-> 5], firefox |-> [implicit_wait |-> 7]]}

\* request.config.getoption(name): the command line's value, or the default
\* pytest_addoption declared.
GetOption(given, declared) == IF given = Omitted THEN declared ELSE given

\* driver(), lines 47-54: the browser name, the headless flag and the
\* browser configuration of a test.  The fixture's parameters are request
\* and test_data only.
ResolveOptions(cli, testData) ==
    LET b == GetOption(cli.browser, OptionDefaultBrowser) IN
    [browser |-> b,
     headless |-> cli.headless,
     browser_config |-> Get(testData.browser_config, b, EmptyMap)]

NoRun ==
    [cli |-> [browser |-> Omitted, headless |-> FALSE],
     config |-> DefaultFixtureConfig,
     browser_configs |-> EmptyMap,
     resolved |-> [browser |-> "none", headless |-> FALSE,
                   browser_config |-> EmptyMap]]

OptionsIdle == optRun = NoRun

\* The setup of a test resolves its options.
DriverFixtureOptions ==
    /\ unit = "options"
    /\ optRun = NoRun
    /\ \E cli \in CommandLines, config \in LoadedConfigs, bc \in BrowserConfigFiles :
         optRun' = [cli |-> cli, config |-> config, browser_configs |-> bc,
                    resolved |-> ResolveOptions(cli, [EmptyTestData EXCEPT
                                                        !.browser_config = bc])]
    /\ UNCHANGED <<unit, fixVars, facVars, cfgVars, shotVars, pgVars, dirVars,
                   cliVars, navVars>>

OptionsNext == DriverFixtureOptions

(***************************************************************************)
(* run_tests.py: setup_directories                                         *)
(***************************************************************************)
\* The directories setup_directories creates, in its order.
SetupDirs == <<"logs", "reports", "reports/html", "reports/screenshots",
               "reports/allure-results">>

\* The directories the clean-up removes whole.
CleanedTrees == {"reports/allure-results", "reports/allure-report",
                 ".pytest_cache", "utilities/__pycache__"}

AllDirs == Range(SetupDirs) \cup CleanedTrees \cup {"test_data"}

\* The directory a directory lies in ("." is the working directory).
Parent(d) ==
    IF d \in {"reports/html", "reports/screenshots", "reports/allure-results",
              "reports/allure-report"} THEN "reports"
    ELSE "."

\* Files a run leaves behind.
AllFiles ==
    {[dir |-> "reports/screenshots", name |-> "failure_test", ext |-> ".png"],
     [dir |-> "reports/screenshots", name |-> "failure_test_error", ext |-> ".txt"],
     [dir |-> "reports/allure-results", name |-> "result", ext |-> ".json"]}

\* The states a working directory can be in: a directory exists only inside
\* an existing directory, a file only in an existing directory.
DirectoryStates ==
    {ds \in SUBSET AllDirs : \A d \in ds : Parent(d) \in ds \cup {"."}}

DirectoryFiles(ds) == {fls \in SUBSET AllFiles : \A f \in fls : f.dir \in ds}

\* os.makedirs(d): d and the directories above it.
MakeDirs(ds, d) == (ds \cup {d, Parent(d)}) \ {"."}

\* The clean-up of setup_directories(clean=True), lines 40-73: each tree is
\* removed if it exists, and *.png and *.txt are removed from the
\* screenshots directory.
CleanUp(ds, fls) ==
    [dirs |-> ds \ CleanedTrees,
     files |-> {f \in fls :
                  /\ f.dir \notin CleanedTrees
                  /\ ~(f.dir = "reports/screenshots" /\ f.ext \in {".png", ".txt"})}]

\* for directory in directories: if not os.path.exists(directory): os.makedirs
RECURSIVE CreateFrom(_, _)
CreateFrom(ds, i) ==
    IF i > Len(SetupDirs) THEN ds
    ELSE CreateFrom(IF SetupDirs[i] \in ds THEN ds ELSE MakeDirs(ds, SetupDirs[i]),
                    i + 1)

\* setup_directories with the clean-up done whatever the option.
SetupDirectoriesAlwaysCleans(ds, fls, clean) ==
    LET c == CleanUp(ds, fls) IN
    [dirs |-> CreateFrom(c.dirs, 1), files |-> c.files]

\* setup_directories(clean) returning: the directories and files it leaves.
SetupDirectories(ds, fls, clean) ==
    LET c == IF clean THEN CleanUp(ds, fls) ELSE [dirs |-> ds, files |-> fls] IN
    [dirs |-> CreateFrom(c.dirs, 1), files |-> c.files]

NoCallBefore == [dirs |-> {}, files |-> {}]

\* Somebody calls setup_directories(clean) and it returns.
CallSetupDirectories ==
    /\ unit = "directories"
    /\ Len(sdCleans) < MaxSetupCalls
    /\ \E clean \in BOOLEAN :
         LET r == SetupDirectories(dirs, dirFiles, clean) IN
         /\ dirs' = r.dirs
         /\ dirFiles' = r.files
         /\ sdCleans' = Append(sdCleans, clean)
         /\ sdBefore' = [dirs |-> dirs, files |-> dirFiles]
    /\ UNCHANGED <<unit, fixVars, facVars, cfgVars, shotVars, pgVars, optVars,
                   cliVars, navVars>>

(***************************************************************************)
(* utilities/system_check.py: SystemCheck.run                              *)
(***************************************************************************)
\* The checks run() makes before the directory check, in its order.
ExternalChecks == <<"python_version", "required_packages", "chrome_browser",
                    "chrome_driver", "firefox_browser", "firefox_driver",
                    "edge_browser", "edge_driver">>

\* What a check can do: pass ("ok"); log an error and set checks_passed =
\* False, has_errors = True ("error"); log a warning and set checks_passed =
\* False, has_warnings = True ("warning": check_edge_browser when Edge is
\* missing on macOS); log a warning and set nothing ("skipped": a browser
\* check on an unsupported operating system).
CheckOutcomes(check) ==
    IF check = "edge_browser" THEN {"ok", "warning", "error"}
    ELSE IF check \in {"chrome_browser", "firefox_browser"}
    THEN {"ok", "skipped", "error"}
    ELSE {"ok", "error"}

\* required_directories of check_directory_structure.
CheckedDirs == <<"logs", "reports", "reports/html", "reports/screenshots",
                 "reports/allure-results", "test_data">>

\* SystemCheck.__init__
NewSystemCheck == [checks_passed |-> TRUE, has_errors |-> FALSE,
                   has_warnings |-> FALSE]

\* The flags after a check with outcome o.
ApplyCheck(flags, o) ==
    IF o = "error" THEN [flags EXCEPT !.checks_passed = FALSE, !.has_errors = TRUE]
    ELSE IF o = "warning"
    THEN [flags EXCEPT !.checks_passed = FALSE, !.has_warnings = TRUE]
    ELSE flags

RECURSIVE ApplyChecks(_, _, _)
ApplyChecks(flags, outs, i) ==
    IF i > Len(outs) THEN flags
    ELSE ApplyChecks(ApplyCheck(flags, outs[i]), outs, i + 1)

\* check_directory_structure: the required directories that do not exist.
MissingDirs(ds) == {d \in Range(CheckedDirs) : d \notin ds}

\* run(): every check, then  return self.checks_passed and not self.has_errors.
\* outs are the outcomes of the external checks; errors and warnings count
\* the checks that logged an error, a warning.
SystemCheckRun(outs, ds) ==
    LET missing == MissingDirs(ds)
        f == ApplyChecks(NewSystemCheck, outs, 1)
        g == IF missing # {} THEN ApplyCheck(f, "error") ELSE f
    IN [ran |-> TRUE,
        checks_passed |-> g.checks_passed,
        has_errors |-> g.has_errors,
        has_warnings |-> g.has_warnings,
        errors |-> Cardinality({i \in DOMAIN outs : outs[i] = "error"})
                     + (IF missing # {} THEN 1 ELSE 0),
        warnings |-> Cardinality({i \in DOMAIN outs : outs[i] \in {"warning", "skipped"}}),
        missing |-> missing,
        ret |-> g.checks_passed /\ ~g.has_errors]

NoSystemCheck ==
    [ran |-> FALSE, checks_passed |-> TRUE, has_errors |-> FALSE,
     has_warnings |-> FALSE, errors |-> 0, warnings |-> 0, missing |-> {},
     ret |-> FALSE]

(***************************************************************************)
(* run_tests.py: main                                                      *)
(***************************************************************************)
\* The parsed command line: --clean, --skip-system-check.
CliArgs == [clean : BOOLEAN, skip_system_check : BOOLEAN]

\* What pytest.main(pytest_args) does: it returns its exit code (every test
\* passed; some test failed), or it raises.
PytestOutcomes == {"all passed", "tests failed", "raises"}

\* run_tests: try: pytest.main(...); return True
\*            except Exception: logger.error(...); return False
RunTests(t) == t # "raises"

\* sys.exit(main()): the status of  return 0 if success else 1.
ExitOk == 0

ExitFailure == 1

StillRunning == -1

CliIdle ==
    /\ cliPc = "start"
    /\ cliArgs = [clean |-> FALSE, skip_system_check |-> FALSE]
    /\ sysCheck = NoSystemCheck
    /\ testsRun = "not started"
    /\ exitCode = StillRunning

\* main(), lines 156-170: parse the arguments, setup_directories(clean).
\* An OSError of a filesystem call is not caught anywhere: the interpreter
\* prints the traceback and exits with status 1.
MainSetupDirectories ==
    /\ unit = "cli"
    /\ cliPc = "start"
    /\ \E a \in CliArgs, os \in {"ok", "OSError"} :
         LET r == SetupDirectories(dirs, dirFiles, a.clean) IN
         /\ cliArgs' = a
         /\ os = "OSError" => (r.dirs # dirs \/ r.files # dirFiles)
         /\ IF os = "ok"
            THEN /\ dirs' = r.dirs
                 /\ dirFiles' = r.files
                 /\ cliPc' = IF a.skip_system_check THEN "tests" ELSE "check"
                 /\ UNCHANGED exitCode
            ELSE /\ cliPc' = "done"
                 /\ exitCode' = ExitFailure
                 /\ UNCHANGED <<dirs, dirFiles>>
    /\ UNCHANGED <<unit, fixVars, facVars, cfgVars, shotVars, pgVars, optVars,
                   navVars, sdCleans, sdBefore, sysCheck, testsRun>>

\* main(), lines 173-175: if not run_system_check(): return 1
MainSystemCheck ==
    /\ unit = "cli"
    /\ cliPc = "check"
    /\ \E o1 \in CheckOutcomes(ExternalChecks[1]), o2 \in CheckOutcomes(ExternalChecks[2]),
          o3 \in CheckOutcomes(ExternalChecks[3]), o4 \in CheckOutcomes(ExternalChecks[4]),
          o5 \in CheckOutcomes(ExternalChecks[5]), o6 \in CheckOutcomes(ExternalChecks[6]),
          o7 \in CheckOutcomes(ExternalChecks[7]), o8 \in CheckOutcomes(ExternalChecks[8]) :
         LET c == SystemCheckRun(<<o1, o2, o3, o4, o5, o6, o7, o8>>, dirs) IN
         /\ sysCheck' = c
         /\ IF c.ret
            THEN cliPc' = "tests" /\ UNCHANGED exitCode
            ELSE cliPc' = "done" /\ exitCode' = ExitFailure
    /\ UNCHANGED <<unit, fixVars, facVars, cfgVars, shotVars, pgVars, optVars,
                   navVars, dirVars, cliArgs, testsRun>>

\* main(), lines 178-180: success = run_tests(...); return 0 if success else 1
MainRunTests ==
    /\ unit = "cli"
    /\ cliPc = "tests"
    /\ \E t \in PytestOutcomes :
         /\ testsRun' = t
         /\ exitCode' = IF RunTests(t) THEN ExitOk ELSE ExitFailure
    /\ cliPc' = "done"
    /\ UNCHANGED <<unit, fixVars, facVars, cfgVars, shotVars, pgVars, optVars,
                   navVars, dirVars, cliArgs, sysCheck>>

CliNext ==
    \/ CallSetupDirectories
    \/ MainSetupDirectories
    \/ MainSystemCheck
    \/ MainRunTests

(***************************************************************************)
(* pages/selenium_page.py: SeleniumPage                                    *)
(***************************************************************************)
\* navigate_to_downloads, navigate_to_documentation: the link each clicks
\* and the substring each waits for in the URL.
Navigations ==
    {[fn |-> "navigate_to_downloads", link |-> "Downloads", url |-> "downloads"],
     [fn |-> "navigate_to_documentation", link |-> "Documentation",
      url |-> "documentation"]}

NoNavigation ==
    [fn |-> "none", click |-> "none", url_wait |-> "none", kind |-> "none",
     exc |-> "none"]

\* self.click(By.LINK_TEXT, link); self.wait_for_url_contains(url): the value
\* wait_for_url_contains returns is dropped, and the method returns None.
Navigate(nav, click, url_wait) ==
    IF click.kind = "raise"
    THEN [fn |-> nav.fn, click |-> click.exc, url_wait |-> "none",
          kind |-> "raise", exc |-> click.exc]
    ELSE [fn |-> nav.fn, click |-> "ok", url_wait |-> url_wait.value,
          kind |-> "return", exc |-> "none"]

\* Test code calls one of the navigations.  wait2 = "ok" is the URL coming
\* to contain the substring within the timeout.
SeleniumPageNavigate ==
    /\ unit = "selenium_page"
    /\ navResult = NoNavigation
    /\ \E nav \in Navigations, wait1 \in WaitOutcomes, wait2 \in WaitOutcomes,
          t \in clock .. MaxClock, save \in SaveOutcomes :
         LET click == BasePageOperation("click", wait1, Stamp(t), save, Stamp(t), save)
             url_wait == BasePageOperation("wait_for_url_contains", wait2,
                                           Stamp(t), save, Stamp(t), save)
         IN
         /\ navResult' = Navigate(nav, click, url_wait)
         /\ clock' = IF Len(click.shots) = 0 THEN clock ELSE t
         /\ shotFiles' = shotFiles \cup SavedPaths(click.shots)
         /\ shotCount' = shotCount + SavedCount(click.shots)
    /\ UNCHANGED <<unit, fixVars, facVars, cfgVars, pgVars, optVars, dirVars,
                   cliVars>>

NavNext == SeleniumPageNavigate

(***************************************************************************)
(* Specification                                                           *)
(***************************************************************************)
\* The run starts at second 0 with an empty screenshots directory.
ScreenshotsIdle ==
    /\ clock = 0
    /\ shotFiles = {}
    /\ shotCount = 0

\* The run-level facts no action changes are drawn only for the component
\* that reads them.
Init ==
    /\ unit \in {"fixture", "factory", "config_manager", "config_fixture",
                 "test_data_fixture", "base_page", "options", "directories",
                 "cli", "selenium_page"}
    /\ browser \in (IF unit = "fixture" THEN BrowserNames ELSE {"chrome"})
    /\ itemHasMarkers \in (IF unit = "fixture" THEN BOOLEAN ELSE {FALSE})
    /\ facPlatform \in (IF unit = "factory" THEN Platforms ELSE {"Linux-x86_64"})
    /\ tdDir \in (IF unit = "test_data_fixture"
                  THEN {"present", "absent", "uncreatable"} ELSE {"present"})
    /\ fs \in {[f \in Files |-> IF f \in ReadBy(unit) THEN g[f] ELSE "absent"] :
                g \in [ReadBy(unit) -> FileStates]}
    /\ tdDir # "present" => \A f \in Range(TestDataFiles) : fs[f] = "absent"
    /\ FixtureIdle
    /\ FactoryIdle
    /\ ConfigIdle
    /\ ScreenshotsIdle
    /\ PageIdle
    /\ OptionsIdle
    /\ dirs \in (IF unit \in {"directories", "cli"} THEN DirectoryStates ELSE {{}})
    /\ dirFiles \in DirectoryFiles(dirs)
    /\ sdCleans = << >>
    /\ sdBefore = NoCallBefore
    /\ CliIdle
    /\ navResult = NoNavigation

Next ==
    \/ FixtureNext
    \/ FactoryNext
    \/ ConfigNext
    \/ PageNext
    \/ OptionsNext
    \/ CliNext
    \/ NavNext

Spec == Init /\ [][Next]_vars

(***************************************************************************)
(* Claims about the driver fixture and the outcome hook                    *)
(***************************************************************************)
LiveSessions == {i \in Tests : sess[i] = "LIVE"}

\* C1: every session the fixture started has been quit when the fixture has
\* finished, on every path (pass, failure, and an exception raised by the
\* setup steps that follow the constructor): between two tests no session
\* of a finished test is still LIVE.
C1_StartedSessionIsQuit ==
    (unit = "fixture" /\ pc = "idle") => LiveSessions = {}

\* C2: within one worker at most one session created by the fixture is live
\* at any moment.
C2_AtMostOneLiveSession ==
    unit = "fixture" => Cardinality(LiveSessions) <= 1

\* C3: no operation is issued on a session after it has been quit: nothing
\* that follows the quit in a test's run touches the driver, and the hook
\* captures only in the call phase, before the teardown's quit.
C3_NoUseAfterQuit ==
    unit = "fixture" =>
        \A i, j \in DOMAIN events :
            /\ (i < j /\ events[i] = "quit") => events[j] \notin DriverOps
            /\ (i < j /\ events[j] = "save_screenshot")
                   => events[i] \notin {"report_call", "report_teardown", "quit"}

\* C3's case: a failed or marked test was captured, then its session quit.
C3_Witness ==
    /\ unit = "fixture"
    /\ pc = "idle"
    /\ \E i, j \in DOMAIN events :
          i < j /\ events[i] = "save_screenshot" /\ events[j] = "quit"

\* C4: when driver.quit() raises in the teardown the error is logged and
\* not propagated: the teardown phase is reported as passed, as it is when
\* quit succeeds, and the setup and call outcomes stay what they were.
C4_QuitErrorIsSwallowed ==
    (unit = "fixture" /\ quitResult = "WebDriverException") =>
        /\ outcome.teardown = DriverCleanup("ok").outcome
        /\ outcome.teardown = "passed"
        /\ outcome.setup = "passed"
        /\ outcome.call \in {"passed", "failed"}
        /\ "Error quitting driver" \in logged
        /\ raised = "none"

\* C4's case: quit raised and the test has been reported.
C4_Witness ==
    /\ unit = "fixture"
    /\ pc = "idle"
    /\ quitResult = "WebDriverException"
    /\ outcome.call = "failed"

(***************************************************************************)
(* Claims about session creation                                           *)
(***************************************************************************)
SpawnEffects == {"probe", "download", "chmod", "start"}

\* C5: for every browser name outside the supported set, session creation
\* raises ValueError before any driver probe is run, any download is
\* attempted or any browser is started -- in DriverFactory.create_driver and
\* in the driver fixture alike.
C5_UnsupportedBrowserRaisesFirst ==
    /\ (unit = "factory" /\ facPc # "idle" /\ facArgs.browser \notin FactoryBrowsers)
          => /\ facPc = "done"
             /\ facResult = Raised("ValueError", << >>)
             /\ facEffects = << >>
             /\ facSession = "none"
    /\ (unit = "fixture" /\ browser \notin FixtureBrowsers /\ testNo > 0
          /\ pc # "dispatch")
          => /\ raised = "ValueError"
             /\ \A i \in DOMAIN events : events[i] \notin SpawnEffects
             /\ \A t \in Tests : sess[t] = "UNCREATED"

\* C5's case: create_driver was called with an unsupported name and ended.
C5_Witness ==
    /\ unit = "factory"
    /\ facPc = "done"
    /\ facArgs.browser = "safari"
    /\ facResult.exc = "ValueError"

\* C6: for a supported browser a create_driver call ends in one of two ways:
\* it returns a live session, or it raises DriverInitializationError chained
\* to the underlying cause with no session left; whenever the probe, the
\* download, the path resolution or the browser start failed it is the second.
C6_InitFailureIsDriverInitializationError ==
    (unit = "factory" /\ facPc = "done" /\ facArgs.browser \in FactoryBrowsers) =>
        \/ /\ facResult.kind = "return"
           /\ facSession = "LIVE"
        \/ /\ facResult.kind = "raise"
           /\ facResult.exc = "DriverInitializationError"
           /\ facResult.chain # << >>
           /\ facSession = "none"
           /\ facConfigured = "none"

\* C6's case: the download path was taken and the browser failed to start.
C6_Witness ==
    /\ unit = "factory"
    /\ facPc = "done"
    /\ facEffects = <<"probe", "download", "start">>
    /\ facResult = Raised("DriverInitializationError", <<"WebDriverException">>)

C8_EdgeOnArmMacSessionOrInitError ==
    (unit = "factory" /\ facPc = "done" /\ facPlatform = "Darwin-arm64"
       /\ facArgs.browser = "edge") =>
        \/ facResult.kind = "return" /\ facSession = "LIVE"
        \/ facResult.kind = "raise" /\ facResult.exc = "DriverInitializationError"

(***************************************************************************)
(* Claims about configuration loading                                      *)
(***************************************************************************)
ValidJsonTexts == {TextEmptyObject, TextObject, TextArray, TextBrowsers,
                   TextEnvironments}

MalformedJsonTexts == {TextTruncated}

C10_MalformedJsonAborts ==
    (\E f \in ReadBy(unit) : fs[f] \in MalformedJsonTexts) =>
        /\ cmResult.kind \in {"none", "raise"}
        /\ fxResult.kind \in {"none", "raise"}

(***************************************************************************)
(* Claims about the ConfigManager singleton and its accessors              *)
(***************************************************************************)
\* C11: after any sequence of ConfigManager() constructions every
\* construction returns the same instance and the configuration files are
\* read from disk only during the first construction: once one construction
\* has been made, whatever its result, no later step reads a file again.
C11_OnlyFirstConstructionReads ==
    [][(unit = "config_manager" /\ cmConstructs >= 1)
          => (cmInstance' = cmInstance /\ cmReads' = cmReads)]_vars

\* C12: repeated calls of the same accessor with the same argument return
\* equal values, whatever callers did in between with the values returned
\* earlier: the latest result of an accessor call equals its first.
C12_RepeatedReadsAgree ==
    unit = "config_manager" => cmLast.result = cmFirst.result

\* The environment file as ConfigManager loaded it.
LoadedEnvFile == cmLoads[EnvConfigFile].value

\* The names the loaded environment file has under "environments".
LoadedEnvironmentNames ==
    IF IsMapping(LoadedEnvFile) /\ "environments" \in DOMAIN LoadedEnvFile
    THEN DOMAIN LoadedEnvFile.environments
    ELSE {}

\* The latest call was get_env_config(name) with an actual name.
NamedEnvCall ==
    /\ cmLast.call.fn = "get_env_config"
    /\ cmLast.call.arg # Omitted
    /\ TruthyArg(cmLast.call.arg)

C14_DefaultEnvironmentThreeWays ==
    (/\ unit = "config_manager"
     /\ IsMapping(LoadedEnvFile)
     /\ cmMutations = 0
     /\ cmLast.call.fn = "get_env_config"
     /\ cmLast.call.arg \in {Omitted, PyNone, "default"})
    => /\ cmLast.result.kind = "return"
       /\ cmLast.result.value = Get(LoadedEnvFile, "default", EmptyMap)

\* The record the claim names.
HardCodedBrowserDefault ==
    [implicit_wait |-> ManagerDefaultImplicitWait,
     arguments |-> JsonArray(<< >>),
     preferences |-> EmptyMap,
     window_size |-> [width |-> ManagerDefaultWidth,
                      height |-> ManagerDefaultHeight]]

\* C15: for every loaded main configuration, get_browser_config(name) for a
\* name that has no entry in the browser section returns exactly the
\* hard-coded default record: implicit_wait = 10, arguments = [],
\* preferences = {}, window_size = {width: 1920, height: 1080}.
C15_AbsentBrowserIsHardCodedDefault ==
    (/\ unit = "config_manager"
     /\ cmMutations = 0
     /\ cmLast.call.fn = "get_browser_config"
     /\ cmLast.call.arg # Omitted
     /\ TruthyArg(cmLast.call.arg)
     /\ cmLast.call.arg
           \notin DOMAIN Get(cmLoads[MainConfigFile].value, "browser", EmptyMap))
    => /\ cmLast.result.kind = "return"
       /\ cmLast.result.value = HardCodedBrowserDefault

(***************************************************************************)
(* Claims about screenshots                                                *)
(***************************************************************************)
\* C16: any two screenshot captures of a run write to distinct file paths
\* (two captures with the same label in one process, captures of tests that
\* have the same name), so no capture overwrites another: the screenshots
\* directory holds as many PNG files as captures have saved.
C16_CapturesWriteDistinctFiles ==
    unit \in {"fixture", "base_page"} => Cardinality(shotFiles) = shotCount

\* The files the claim names for a failure capture of a test at a timestamp.
FailureStem(name, stamp) == ScreenshotPath("failure_" \o name \o "_" \o stamp)

\* C17: for a failure capture with error text the text file is a sibling of
\* the PNG with the same stem: failure_{test_name}_{timestamp}.png and
\* failure_{test_name}_{timestamp}.txt, same test name, same timestamp.
C17_ErrorTextSharesThePngStem ==
    /\ unit = "fixture" =>
         \A i \in DOMAIN captures :
            (captures[i].kind = "failure" /\ captures[i].txt # "") =>
                /\ captures[i].png
                     = FailureStem(captures[i].name, captures[i].stamp) \o ".png"
                /\ captures[i].txt
                     = FailureStem(captures[i].name, captures[i].stamp) \o ".txt"
    /\ (unit = "base_page" /\ pgResult.op = "take_failure_screenshot"
          /\ pgResult.txt # "") =>
         \E t \in 0 .. MaxClock :
            /\ pgResult.value = FailureStem(ItemName(1), Stamp(t)) \o ".png"
            /\ pgResult.txt = FailureStem(ItemName(1), Stamp(t)) \o ".txt"

\* A screenshot of the latest BasePage call could not be captured or saved.
PageShotFailed ==
    \E i \in DOMAIN pgResult.shots : ~pgResult.shots[i].saved

\* C18: a failure while capturing or saving a screenshot is logged and never
\* propagated, so it never replaces the original outcome: a BasePage
\* operation that timed out still raises its TimeoutException, a visibility
\* check that timed out still returns False, and nothing escapes the outcome
\* hook, whose test keeps its pass / fail result.
C18_CaptureFailureNeverPropagates ==
    /\ (unit = "base_page" /\ pgResult.wait = "TimeoutException" /\ PageShotFailed) =>
         IF TimeoutPolicy(pgResult.op).then = "raise"
         THEN pgResult.kind = "raise" /\ pgResult.exc = "TimeoutException"
         ELSE pgResult.kind = "return"
              /\ pgResult.value = TimeoutPolicy(pgResult.op).then
    /\ (unit = "fixture" /\ "Failed to take screenshot" \in logged) =>
         /\ hookRaised = "none"
         /\ outcome.call \in {"passed", "failed"}

\* The hook has handled the report of the current test's call phase.
CallReported ==
    /\ testNo > 0
    /\ outcome.call # "none"
    /\ pc \in {"teardown", "report_teardown", "idle"}

CapturesOfKind(kind) == {i \in DOMAIN captures : captures[i].kind = kind}

C20_PassCaptureIffMarkedAndPassed ==
    (unit = "fixture" /\ CallReported) =>
        /\ Cardinality(CapturesOfKind("pass")) <= 1
        /\ (Cardinality(CapturesOfKind("pass")) = 1)
              <=> (outcome.call = "passed" /\ marked)

(***************************************************************************)
(* Claims about the run-level options                                      *)
(***************************************************************************)
\* The browser the claim names: the command line's, else the configured default.
ExpectedBrowser(run) ==
    IF run.cli.browser # Omitted THEN run.cli.browser
    ELSE run.config.browser.default

\* The headless flag the claim names: the command line's when given, else the
\* headless entry of that browser in the configuration.
ExpectedHeadless(run) ==
    IF run.cli.headless THEN TRUE
    ELSE Get(Get(run.config.browser, ExpectedBrowser(run), EmptyMap),
             "headless", FALSE)

\* C21: at test setup the browser name and the headless flag are those of
\* the command line when given and otherwise the loaded configuration's
\* defaults (its default browser, that browser's headless entry), and the
\* browser configuration used is the entry of the browser so resolved.
C21_OptionsFromCommandLineElseConfig ==
    (unit = "options" /\ optRun # NoRun) =>
        /\ optRun.resolved.browser = ExpectedBrowser(optRun)
        /\ optRun.resolved.headless = ExpectedHeadless(optRun)
        /\ optRun.resolved.browser_config
             = Get(optRun.browser_configs, ExpectedBrowser(optRun), EmptyMap)

(***************************************************************************)
(* Claims about the CLI runner                                             *)
(***************************************************************************)
\* The system check ran and did not pass.
SystemCheckFailed == sysCheck.ran /\ ~sysCheck.ret

\* C22: the CLI runner's exit code is 0 only if the system check (unless
\* skipped) passed and every test passed; it is 1 whenever the system check
\* fails, any test fails, or an unhandled error occurs during orchestration;
\* when the system check fails the tests are never started.
C22_ExitCodeReflectsCheckAndTests ==
    (unit = "cli" /\ cliPc = "done") =>
        /\ exitCode = ExitOk =>
              /\ cliArgs.skip_system_check \/ (sysCheck.ran /\ sysCheck.ret)
              /\ testsRun = "all passed"
        /\ (SystemCheckFailed \/ testsRun # "all passed") => exitCode = ExitFailure
        /\ SystemCheckFailed => testsRun = "not started"

(***************************************************************************)
(* Claims about BasePage and SeleniumPage                                  *)
(***************************************************************************)
\* The operations whose result is a boolean or a list.
ValueOps == {"is_element_visible", "is_element_clickable", "wait_for_url_contains",
             "wait_for_element_to_disappear", "find_elements"}

\* The operations that must act on an element.
ActingOps == {"find_element", "wait_for_element_visible", "click", "get_text",
              "send_keys"}

\* C23: BasePage keeps a fixed per-operation timeout policy: an operation
\* whose result is a boolean or a list reports a timeout through its return
\* value (False, the empty list) and never raises TimeoutException; an
\* operation that must act on an element raises the TimeoutException again
\* after logging and capturing a diagnostic screenshot.
C23_PerOperationTimeoutPolicy ==
    (unit = "base_page" /\ pgResult.op \in PageOps
       /\ pgResult.wait = "TimeoutException") =>
        /\ pgResult.op \in ValueOps =>
              /\ pgResult.exc # "TimeoutException"
              /\ pgResult.kind = "return"
              /\ pgResult.value = (IF pgResult.op = "find_elements" THEN "[]"
                                   ELSE "False")
        /\ pgResult.op \in ActingOps =>
              /\ pgResult.kind = "raise"
              /\ pgResult.exc = "TimeoutException"
              /\ pgResult.shots # NoShots

C25_NavigationRaisesWhenPageNotReached ==
    (unit = "selenium_page" /\ navResult.click = "ok") =>
        /\ navResult.url_wait = "False" =>
              (navResult.kind = "raise" /\ navResult.exc = "TimeoutException")
        /\ navResult.kind = "return" => navResult.url_wait = "True"

(***************************************************************************)
(* Claims about driver resolution                                          *)
(***************************************************************************)
ProbeSucceeded == facProbe = "ok"

ProbeDidNotSucceed == facProbe \notin {"none", "ok"}

Downloaded == \E i \in DOMAIN facEffects : facEffects[i] = "download"

\* C26: in DriverFactory the download is invoked only when the PATH probe
\* did not succeed: when the probe succeeds the session is started with the
\* PATH driver and nothing is downloaded; when it does not succeed the
\* download is the next step attempted, before any failure is reported.
C26_DownloadOnlyAfterFailedProbe ==
    unit = "factory" =>
        /\ Downloaded => ProbeDidNotSucceed
        /\ ProbeSucceeded =>
              /\ ~Downloaded
              /\ facPc \in {"start", "configure", "done"}
              /\ facPath = <<"PATH">>
        /\ ProbeDidNotSucceed =>
              /\ Len(facEffects) >= 2 => facEffects[2] = "download"
              /\ facResult.kind = "raise" => Downloaded

\* _get_driver_path has returned a path: the service is given that path.
DriverPathReturned == facPath \notin {<< >>, <<"PATH">>}

\* C27: whenever _get_driver_path returns a path (the download result being
\* the directory, the binary, or another file beside it) that path names an
\* existing file that has execute permission; otherwise it raises
\* DriverInitializationError.
C27_ReturnedDriverPathIsExecutable ==
    unit = "factory" =>
        /\ DriverPathReturned =>
              /\ facPath = ActualPath(facDriverPath, DriverName(facArgs.browser))
              /\ facBin.exists
              /\ facBin.exec
        /\ (Downloaded /\ facPc = "done" /\ ~DriverPathReturned) =>
              facResult.exc = "DriverInitializationError"

(***************************************************************************)
(* Claims about the system check                                           *)
(***************************************************************************)
\* C28: SystemCheck.run returns False if and only if at least one check
\* recorded an error; a run whose checks produced only warnings (the Edge
\* browser missing on macOS) returns True, so the CLI runner goes on to run
\* the tests.
C28_SystemCheckFailsOnErrorsOnly ==
    (unit = "cli" /\ sysCheck.ran) =>
        /\ ~sysCheck.ret <=> sysCheck.errors > 0
        /\ (sysCheck.errors = 0 /\ cliPc = "done") => testsRun # "not started"

\* C29: in the CLI flow (setup_directories, then the system check) the
\* directory-structure check cannot fail: every directory it requires has
\* been created by setup_directories before the check runs.
C29_DirectoryCheckCannotFail ==
    (unit = "cli" /\ sysCheck.ran) => sysCheck.missing = {}

(***************************************************************************)
(* Claims about get_browser_config                                         *)
(***************************************************************************)
\* C30: get_browser_config(name) returns a mapping and never raises for any
\* non-empty name, including a name that is a key of the browser section
\* whose value is not a mapping (the "default" key, which holds the default
\* browser's name).
C30_BrowserConfigNeverRaises ==
    (/\ unit = "config_manager"
     /\ cmLast.call.fn = "get_browser_config"
     /\ cmLast.call.arg # Omitted
     /\ TruthyArg(cmLast.call.arg))
    => /\ cmLast.result.kind = "return"
       /\ IsMapping(cmLast.result.value)
====
